---- MODULE Spec2Model ----
(***************************************************************************)
(* Reconciliation engine of netbox-incus-sync: the full synchronisation    *)
(* job (SyncIncusJob), the events job (SyncEventsJob) and the services     *)
(* they drive (InstanceSyncService, NetworkSyncService, EventSyncService), *)
(* over a record store holding VirtualMachine, VMInterface, IPAddress and  *)
(* JournalEntry rows.                                                      *)
(*                                                                         *)
(* The Incus API client is a collaborator: what it returns (connection     *)
(* test result, instance list, operation list) is an input drawn from a    *)
(* bounded set, and each of its calls may raise.                           *)
(***************************************************************************)
EXTENDS Integers, Sequences, FiniteSets, TLC

VARIABLES
    vms,        \* VirtualMachine rows
    ifaces,     \* VMInterface rows
    ips,        \* IPAddress rows
    disks,      \* VirtualDisk rows
    macs,       \* MACAddress rows
    journal,    \* JournalEntry rows, in creation order
    now,        \* timezone.now(), in seconds
    job,        \* the job being run: "none" | "full" | "events"
    pc,         \* position of the running job
    hostq,      \* hosts the run's loop has still to visit
    cur,        \* host being processed ("" outside a host)
    instances,  \* client.get_instances() of the current host pass
    idx,        \* index in instances of the next instance to synchronise
    names,      \* incus_instance_names collected so far in this pass
    since,      \* since_minutes of the running job, in seconds
    visited,    \* hosts whose processing was entered during the current run
    failed,     \* hosts of the current run whose processing failed
    synced,     \* instance names whose synchronisation completed in this pass
    removed,    \* records the stale-record step of this pass deleted
    outcome,    \* how the last host pass ended
    atStart,    \* managed records of the host when the pass started
    prev,       \* per host: what the previous pass fetched and how it ended
    repeat,     \* whether the last pass repeated the previous one with the same result
    seen,       \* (operation, record) pairs event ingestion has examined
    value,      \* argument of the last call of parse_size
    returned,   \* what that call returned or raised
    arb         \* per worker: its position in a primary-address arbitration

vars == <<vms, ifaces, ips, disks, macs, journal, now, job, pc, hostq, cur, instances, idx,
          names, since, visited, failed, synced, removed, outcome, atStart,
          prev, repeat, seen, value, returned, arb>>

----------------------------------------------------------------------------
(* Bounds of the model *)

\* longest instance list one host reports
MaxInstances == 2
\* longest operation list one host reports
MaxOps == 2
\* last value of the clock
MaxTime == 2
\* journal entries in the store
MaxJournal == 3

----------------------------------------------------------------------------
(* Program constants *)

\* IncusHost.objects.filter(enabled=True), Meta.ordering = ('name',)
Hosts == <<"h1", "h2">>

HostSet == {Hosts[i] : i \in 1..Len(Hosts)}

MANAGED == "incus-managed"
CONTAINER == "incus-container"
VMTAG == "incus-vm"

\* the lookback of the events pass that ends a full host pass
FullSyncSince == 60
\* half-width of the duplicate window of _journal_entry_exists
DedupeWindow == 1
\* characters of the operation id kept in the journal comment
FragLen == 8

----------------------------------------------------------------------------
(* The record store *)

\* pk of a created row
FreshPk(rows) == CHOOSE n \in 1..(Cardinality(rows) + 1) : \A r \in rows : r.pk # n

Row(rows, pk) == CHOOSE r \in rows : r.pk = pk

\* QuerySet.first(): any row of the result (0 when it is empty)
First(rows) == IF rows = {} THEN {0} ELSE {r.pk : r \in rows}

\* QuerySet save() of one row
Save(rows, row) == {r \in rows : r.pk # row.pk} \cup {row}

DB == [vms |-> vms, ifaces |-> ifaces, ips |-> ips, disks |-> disks,
       macs |-> macs, journal |-> journal]

\* the lowest pk of a non-empty result (rows ordered by pk)
MinPk(rows) == CHOOSE n \in {r.pk : r \in rows} : \A r \in rows : n <= r.pk

\* VMInterface.delete(): the addresses assigned to the interface go with it
\* and a primary address that pointed to one of them is set to null; so do
\* the MAC addresses assigned to it
DeleteInterfaces(d, gone) ==
    LET goneIps == {a.pk : a \in {x \in d.ips : x.iface \in gone}}
        goneMacs == {m.pk : m \in {x \in d.macs : x.iface \in gone}}
    IN [d EXCEPT
          !.ifaces = {[i EXCEPT !.primary_mac = IF @ \in goneMacs THEN 0 ELSE @] :
                      i \in {x \in d.ifaces : x.pk \notin gone}},
          !.macs = {m \in d.macs : m.pk \notin goneMacs},
          !.ips = {a \in d.ips : a.pk \notin goneIps},
          !.vms = {[v EXCEPT
                      !.primary4 = IF v.primary4 \in goneIps THEN 0 ELSE v.primary4,
                      !.primary6 = IF v.primary6 \in goneIps THEN 0 ELSE v.primary6]
                   : v \in d.vms}]

\* VirtualMachine.delete(): interfaces, disks and journal entries of the
\* record are deleted with it
DeleteVm(d, pk) ==
    LET d1 == DeleteInterfaces(d, {i.pk : i \in {x \in d.ifaces : x.vm = pk}})
        NotOfVm(j) == j.vm # pk
    IN [d1 EXCEPT
          !.vms = {v \in d1.vms : v.pk # pk},
          !.disks = {k \in d1.disks : k.vm # pk},
          !.journal = SelectSeq(d1.journal, NotOfVm)]

----------------------------------------------------------------------------
(* sync_utils: sizes *)

\* a text is a sequence of one-character strings
LowerCase == <<"a", "b", "c", "d", "e", "f", "g", "h", "i", "j", "k", "l", "m",
               "n", "o", "p", "q", "r", "s", "t", "u", "v", "w", "x", "y", "z">>
UpperCase == <<"A", "B", "C", "D", "E", "F", "G", "H", "I", "J", "K", "L", "M",
               "N", "O", "P", "Q", "R", "S", "T", "U", "V", "W", "X", "Y", "Z">>
DigitChars == <<"0", "1", "2", "3", "4", "5", "6", "7", "8", "9">>

\* str.upper()
ToUpper(c) ==
    IF \E k \in 1..Len(LowerCase) : LowerCase[k] = c
    THEN UpperCase[CHOOSE k \in 1..Len(LowerCase) : LowerCase[k] = c]
    ELSE c

Upper(s) == [k \in 1..Len(s) |-> ToUpper(s[k])]

\* str.strip()
RECURSIVE Strip(_)
Strip(s) ==
    IF s = <<>> THEN s
    ELSE IF Head(s) = " " THEN Strip(Tail(s))
    ELSE IF s[Len(s)] = " " THEN Strip(SubSeq(s, 1, Len(s) - 1))
    ELSE s

\* str.endswith(suffix)
EndsWith(s, suffix) ==
    Len(s) >= Len(suffix) /\ SubSeq(s, Len(s) - Len(suffix) + 1, Len(s)) = suffix

\* value[:-n]
DropLast(s, n) == SubSeq(s, 1, Len(s) - n)

IsDigit(c) == \E k \in 1..Len(DigitChars) : DigitChars[k] = c

DigitValue(c) == (CHOOSE k \in 1..Len(DigitChars) : DigitChars[k] = c) - 1

AllDigits(s) == \A k \in 1..Len(s) : IsDigit(s[k])

\* the number a text of digits writes
RECURSIVE DigitsValue(_)
DigitsValue(s) ==
    IF s = <<>> THEN 0
    ELSE 10 * DigitsValue(SubSeq(s, 1, Len(s) - 1)) + DigitValue(s[Len(s)])

RECURSIVE Pow10(_)
Pow10(n) == IF n = 0 THEN 1 ELSE 10 * Pow10(n - 1)

\* str(value) of a non-negative int
RECURSIVE py_str_int(_)
py_str_int(n) ==
    IF n < 10 THEN <<DigitChars[n + 1]>>
    ELSE py_str_int(n \div 10) \o <<DigitChars[(n % 10) + 1]>>

\* int(text): the text, stripped, is a non-empty run of digits; anything
\* else is a ValueError
py_int(text) ==
    LET t == Strip(text)
    IN IF t # <<>> /\ AllDigits(t)
       THEN [kind |-> "number", num |-> DigitsValue(t), den |-> 1]
       ELSE [kind |-> "ValueError", num |-> 0, den |-> 1]

\* float(text) of an upper-cased text without sign, exponent or underscore:
\* digits with at most one point and at least one digit give the number
\* num/den, INF and INFINITY give the
\* infinite float, NAN the not-a-number; anything else is a ValueError
py_float(text) ==
    LET t == Strip(text)
        points == {k \in 1..Len(t) : t[k] = "."}
        NotPoint(c) == c # "."
        digits == SelectSeq(t, NotPoint)
        after == IF points = {} THEN 0 ELSE Len(t) - (CHOOSE k \in points : TRUE)
    IN IF t \in {<<"I", "N", "F">>, <<"I", "N", "F", "I", "N", "I", "T", "Y">>}
       THEN [kind |-> "inf", num |-> 0, den |-> 1]
       ELSE IF t = <<"N", "A", "N">>
       THEN [kind |-> "nan", num |-> 0, den |-> 1]
       ELSE IF Cardinality(points) <= 1 /\ digits # <<>> /\ AllDigits(digits)
       THEN [kind |-> "number", num |-> DigitsValue(digits), den |-> Pow10(after)]
       ELSE [kind |-> "ValueError", num |-> 0, den |-> 1]

\* what a call returns: a size in MB, None, or the exception it raises
Some(n) == [kind |-> "int", v |-> n]
None == [kind |-> "None", v |-> 0]
Raises(e) == [kind |-> e, v |-> 0]

\* int(float(text) * mul / div): int() of the infinite float raises
\* OverflowError, which the except clause of parse_memory does not catch;
\* the ValueError of float() and of int(nan) is caught
scaled(f, mul, div) ==
    IF f.kind = "number" THEN Some((f.num * mul) \div (f.den * div))
    ELSE IF f.kind = "inf" THEN Raises("OverflowError")
    ELSE None

\* the values a caller passes: None, an int or a text
NoneValue == [type |-> "None", n |-> 0, s |-> <<>>]
IntValue(n) == [type |-> "int", n |-> n, s |-> <<>>]
StrValue(s) == [type |-> "str", n |-> 0, s |-> s]

\* not value
Falsy(val) ==
    \/ val.type = "None"
    \/ val.type = "int" /\ val.n = 0
    \/ val.type = "str" /\ val.s = <<>>

GIB == <<"G", "I", "B">>
GB == <<"G", "B">>
MIB == <<"M", "I", "B">>
MB == <<"M", "B">>
KIB == <<"K", "I", "B">>
KB == <<"K", "B">>

parse_memory(val) ==
    IF Falsy(val) THEN None
    ELSE LET text == Strip(Upper(IF val.type = "int" THEN py_str_int(val.n) ELSE val.s))
         IN IF EndsWith(text, GIB) THEN scaled(py_float(DropLast(text, 3)), 1024, 1)
            ELSE IF EndsWith(text, GB) THEN scaled(py_float(DropLast(text, 2)), 1024, 1)
            ELSE IF EndsWith(text, MIB) THEN scaled(py_float(DropLast(text, 3)), 1, 1)
            ELSE IF EndsWith(text, MB) THEN scaled(py_float(DropLast(text, 2)), 1, 1)
            ELSE IF EndsWith(text, KIB) THEN scaled(py_float(DropLast(text, 3)), 1, 1024)
            ELSE IF EndsWith(text, KB) THEN scaled(py_float(DropLast(text, 2)), 1, 1024)
            ELSE scaled(py_int(text), 1, 1024 * 1024)

parse_size(val) == parse_memory(val)

\* if size_mb, if memory_mb, if disk_mb
Truthy(r) == r.kind = "int" /\ r.v # 0

----------------------------------------------------------------------------
(* InstanceSyncService *)

\* the lookup without its UUID step: by name and host only
find_existing_vm_by_name(V, vm_name, incus_uuid, host) ==
    First({v \in V : v.name = vm_name /\ v.host = host})

\* the record of an instance: by UUID first, then by name and host
find_existing_vm(V, vm_name, incus_uuid, host) ==
    LET byUuid == {v \in V : v.uuid = incus_uuid}
        byName == {v \in V : v.name = vm_name /\ v.host = host}
    IN IF incus_uuid # "" /\ byUuid # {} THEN First(byUuid) ELSE First(byName)

\* a key the instance data does not hold
Missing == "(missing)"

\* data.get(key, default) of a key whose value is field
get(field, default) == IF field = Missing THEN default ELSE field

\* the status mapping comparing without regard to case
nb_status_nocase(status_raw) ==
    IF status_raw \in {"Running", "running", "RUNNING"} THEN "active" ELSE "offline"

\* 'active' for the raw status 'Running', 'offline' for any other
nb_status(status_raw) == IF status_raw = "Running" THEN "active" ELSE "offline"

\* the custom fields written on the record: the UUID when the instance has
\* one, and the source host
update_vm_custom_fields(vm, data, host) ==
    [vm EXCEPT !.uuid = IF data.uuid # "" THEN data.uuid ELSE vm.uuid,
               !.host = host]

\* the tags added without the removal of the other type tag
apply_tags_add(vm, instance_type) ==
    LET type_tag == IF instance_type = "container" THEN CONTAINER ELSE VMTAG
    IN [vm EXCEPT !.tags = vm.tags \cup {MANAGED, type_tag}]

\* the managed tag and the type tag of the instance, the other type tag removed
apply_tags(vm, instance_type) ==
    LET type_tag == IF instance_type = "container" THEN CONTAINER ELSE VMTAG
        other_tag == IF instance_type = "container" THEN VMTAG ELSE CONTAINER
    IN [vm EXCEPT !.tags = (vm.tags \cup {MANAGED, type_tag}) \ {other_tag}]

\* pk of the record sync_instance returns: existing is the result of
\* find_existing_vm (0 when there is none and a record is created)
vm_pk(d, existing) == IF existing = 0 THEN FreshPk(d.vms) ELSE existing

\* the size of the first disk device whose path is "/", 0 when there is
\* none; a device without size has the size '0'
RECURSIVE extract_disk(_)
extract_disk(devices) ==
    IF devices = <<>> THEN Some(0)
    ELSE LET dev_conf == Head(devices)
             raw_disk == IF dev_conf.size = <<>> THEN <<"0">> ELSE dev_conf.size
         IN IF dev_conf.type = "disk" /\ dev_conf.path = "/"
            THEN parse_size(StrValue(raw_disk))
            ELSE extract_disk(Tail(devices))

\* the extraction of the resources raises: nothing has been written yet
sync_instance_raises(data) ==
    \/ parse_memory(StrValue(data.limits_memory)).kind = "OverflowError"
    \/ extract_disk(data.local_devices).kind = "OverflowError"

\* if memory_mb / if disk_mb: the value written, or the one kept
resource(parsed, kept) == IF Truthy(parsed) THEN parsed.v ELSE kept

\* the resources written whatever was extracted
resource_always(parsed, kept) == IF parsed.kind = "int" THEN parsed.v ELSE 0

\* memory and disk of a record are 0 when the field is null
sync_instance_zeroing(d, data, host, existing) ==
    LET memory_mb == parse_memory(StrValue(data.limits_memory))
        disk_mb == extract_disk(data.local_devices)
        base == IF existing = 0
                THEN [pk |-> FreshPk(d.vms), name |-> data.name,
                      status |-> nb_status(data.status), uuid |-> "",
                      host |-> "", tags |-> {}, primary4 |-> 0, primary6 |-> 0,
                      memory |-> resource_always(memory_mb, 0),
                      disk |-> resource_always(disk_mb, 0)]
                ELSE [Row(d.vms, existing) EXCEPT
                        !.name = data.name, !.status = nb_status(data.status),
                        !.memory = resource_always(memory_mb, @),
                        !.disk = resource_always(disk_mb, @)]
        instance_type == get(data.type, "container")
        vm == apply_tags(update_vm_custom_fields(base, data, host), instance_type)
    IN IF sync_instance_raises(data) THEN d
       ELSE [d EXCEPT !.vms = Save(d.vms, vm)]

\* memory and disk of a record are 0 when the field is null
sync_instance(d, data, host, existing) ==
    LET memory_mb == parse_memory(StrValue(data.limits_memory))
        disk_mb == extract_disk(data.local_devices)
        base == IF existing = 0
                THEN [pk |-> FreshPk(d.vms), name |-> data.name,
                      status |-> nb_status(data.status), uuid |-> "",
                      host |-> "", tags |-> {}, primary4 |-> 0, primary6 |-> 0,
                      memory |-> resource(memory_mb, 0),
                      disk |-> resource(disk_mb, 0)]
                ELSE [Row(d.vms, existing) EXCEPT
                        !.name = data.name, !.status = nb_status(data.status),
                        !.memory = resource(memory_mb, @),
                        !.disk = resource(disk_mb, @)]
        instance_type == get(data.type, "container")
        vm == apply_tags(update_vm_custom_fields(base, data, host), instance_type)
    IN IF sync_instance_raises(data) THEN d
       ELSE [d EXCEPT !.vms = Save(d.vms, vm)]

\* the stale records kept, set offline and stripped of the managed tag
handle_deletions_soft(d, host, incus_instance_uuids) ==
    LET Stale(v) == /\ MANAGED \in v.tags /\ v.host = host
                    /\ v.uuid # "" /\ v.uuid \notin incus_instance_uuids
    IN [d EXCEPT !.vms = {IF Stale(v)
                          THEN [v EXCEPT !.status = "offline",
                                         !.tags = v.tags \ {MANAGED}]
                          ELSE v : v \in d.vms}]

\* the deletion without its test for a UUID: every managed record of the
\* host whose UUID is not among the given identities is deleted
handle_deletions_any(d, host, incus_instance_uuids) ==
    LET gone == {v.pk : v \in {x \in d.vms :
                                  /\ MANAGED \in x.tags /\ x.host = host
                                  /\ x.uuid \notin incus_instance_uuids}}
        RECURSIVE del(_, _)
        del(dd, S) == IF S = {} THEN dd
                      ELSE LET p == CHOOSE x \in S : TRUE
                           IN del(DeleteVm(dd, p), S \ {p})
    IN del(d, gone)

\* the managed records of the host whose UUID is not among the given
\* identities are deleted; a record without UUID is skipped
handle_deletions(d, host, incus_instance_uuids) ==
    LET managed_vms == {v \in d.vms : MANAGED \in v.tags /\ v.host = host}
        gone == {v.pk : v \in {x \in managed_vms :
                                  x.uuid # "" /\ x.uuid \notin incus_instance_uuids}}
        RECURSIVE del(_, _)
        del(dd, S) == IF S = {} THEN dd
                      ELSE LET p == CHOOSE x \in S : TRUE
                           IN del(DeleteVm(dd, p), S \ {p})
    IN del(d, gone)

----------------------------------------------------------------------------
(* NetworkSyncService *)

\* VMInterface.objects.update_or_create(virtual_machine=vm, name=iface_name):
\* the interface row and the store holding it
sync_interface(d, vm, iface_data) ==
    LET have == {i \in d.ifaces : i.vm = vm /\ i.name = iface_data.name}
        row == IF have = {}
               THEN [pk |-> FreshPk(d.ifaces), vm |-> vm, name |-> iface_data.name,
                     enabled |-> iface_data.up, primary_mac |-> 0]
               ELSE [Row(d.ifaces, MinPk(have)) EXCEPT !.enabled = iface_data.up]
    IN [d |-> [d EXCEPT !.ifaces = Save(d.ifaces, row)], iface |-> row.pk]

\* the hardware address of an interface that reports none usable
ZeroMac == <<"0", "0", ":", "0", "0", ":", "0", "0", ":", "0", "0", ":", "0", "0",
             ":", "0", "0">>

\* interface.save(): primary_mac_address is a one-to-one field, the store
\* refuses a row whose primary MAC address another interface holds
AcceptsInterface(I, row) ==
    row.primary_mac = 0 \/ \A i \in I : i.pk # row.pk => i.primary_mac # row.primary_mac

\* if interface.primary_mac_address_id != mac_obj.pk: the interface is saved
\* with mac_obj as primary; what the store raises is caught and logged
set_primary_mac(d, interface, mac_obj) ==
    LET row == [Row(d.ifaces, interface) EXCEPT !.primary_mac = mac_obj]
    IN IF Row(d.ifaces, interface).primary_mac = mac_obj THEN d
       ELSE IF AcceptsInterface(d.ifaces, row)
       THEN [d EXCEPT !.ifaces = Save(d.ifaces, row)]
       ELSE d

\* the MAC address row of hwaddr, assigned to the interface and made its
\* primary MAC address
sync_mac_address(d, interface, hwaddr) ==
    LET hwaddr_normalized == Upper(hwaddr)
        current_primary == {m \in d.macs : m.pk = Row(d.ifaces, interface).primary_mac}
        existing_mac == {m \in d.macs : /\ m.mac_address = hwaddr_normalized
                                        /\ m.iface = interface}
        existing_mac_elsewhere == {m \in d.macs : m.mac_address = hwaddr_normalized}
        mac_obj == [pk |-> FreshPk(d.macs), mac_address |-> hwaddr_normalized,
                    iface |-> interface]
    IN IF \E m \in current_primary : Upper(m.mac_address) = hwaddr_normalized
       THEN d
       ELSE IF existing_mac # {}
       THEN set_primary_mac(d, interface, MinPk(existing_mac))
       ELSE IF existing_mac_elsewhere # {}
       THEN set_primary_mac(
               [d EXCEPT !.macs = Save(d.macs,
                    [Row(d.macs, MinPk(existing_mac_elsewhere)) EXCEPT
                        !.iface = interface])],
               interface, MinPk(existing_mac_elsewhere))
       ELSE set_primary_mac([d EXCEPT !.macs = d.macs \cup {mac_obj}],
                            interface, mac_obj.pk)

\* if hwaddr and hwaddr != '00:00:00:00:00:00'
sync_hwaddr(d, interface, hwaddr) ==
    IF hwaddr # <<>> /\ hwaddr # ZeroMac
    THEN sync_mac_address(d, interface, hwaddr)
    ELSE d

\* an address row created without looking for an existing one
sync_ip_address_create(d, ip_cidr, interface) ==
    LET ip_obj == [pk |-> FreshPk(d.ips), address |-> ip_cidr, iface |-> interface]
    IN [d |-> [d EXCEPT !.ips = d.ips \cup {ip_obj}], ip |-> ip_obj.pk]

\* the address row of ip_cidr, assigned to the interface: kept when already
\* there, reassigned when it exists elsewhere, created otherwise
sync_ip_address(d, ip_cidr, interface) ==
    LET have == {a \in d.ips : a.address = ip_cidr}
    IN IF have # {}
       THEN LET existing_ip == Row(d.ips, MinPk(have))
            IN IF existing_ip.iface = interface
               THEN [d |-> d, ip |-> existing_ip.pk]
               ELSE [d |-> [d EXCEPT !.ips =
                              Save(d.ips, [existing_ip EXCEPT !.iface = interface])],
                     ip |-> existing_ip.pk]
       ELSE LET ip_obj == [pk |-> FreshPk(d.ips), address |-> ip_cidr,
                           iface |-> interface]
            IN [d |-> [d EXCEPT !.ips = d.ips \cup {ip_obj}], ip |-> ip_obj.pk]

\* the addresses of one interface, in the order reported: link-local and
\* loopback scopes and empty addresses are skipped; first_ipv4 and first_ipv6
\* are the first address of each family synchronised on this interface
RECURSIVE sync_interface_ips(_, _, _, _, _)
sync_interface_ips(d, interface, addresses, first_ipv4, first_ipv6) ==
    IF addresses = <<>>
    THEN [d |-> d, ip4 |-> first_ipv4, ip6 |-> first_ipv6]
    ELSE LET addr_info == Head(addresses)
         IN IF addr_info.scope \in {"link", "local"} \/ addr_info.address = ""
            THEN sync_interface_ips(d, interface, Tail(addresses),
                                    first_ipv4, first_ipv6)
            ELSE LET r == sync_ip_address(d, addr_info.address, interface)
                     v4 == IF addr_info.family = "inet" /\ first_ipv4 = 0
                           THEN r.ip ELSE first_ipv4
                     v6 == IF addr_info.family = "inet6" /\ first_ipv6 = 0
                           THEN r.ip ELSE first_ipv6
                 IN sync_interface_ips(r.d, interface, Tail(addresses), v4, v6)

\* the primary addresses set without looking for another holder
set_primary_ips_unchecked(d, vm, ip4, ip6) ==
    LET me == Row(d.vms, vm)
    IN [d EXCEPT !.vms = Save(d.vms,
          [me EXCEPT !.primary4 = IF ip4 # 0 THEN ip4 ELSE me.primary4,
                     !.primary6 = IF ip6 # 0 THEN ip6 ELSE me.primary6])]

\* the primary addresses set to the candidates, to null when there is none
set_primary_ips_reset(d, vm, ip4, ip6) ==
    [d EXCEPT !.vms = Save(d.vms, [Row(d.vms, vm) EXCEPT !.primary4 = ip4,
                                                         !.primary6 = ip6])]

\* the primary address of each family: set when there is a candidate that
\* is not yet the record's primary, after clearing it on the record that
\* holds it
set_primary_ips(d, vm, ip4, ip6) ==
    LET set4 == ip4 # 0 /\ Row(d.vms, vm).primary4 # ip4
        other4 == {v \in d.vms : v.primary4 = ip4 /\ v.pk # vm}
        d1 == IF set4 /\ other4 # {}
              THEN [d EXCEPT !.vms = Save(d.vms,
                      [Row(d.vms, MinPk(other4)) EXCEPT !.primary4 = 0])]
              ELSE d
        set6 == ip6 # 0 /\ Row(d.vms, vm).primary6 # ip6
        other6 == {v \in d1.vms : v.primary6 = ip6 /\ v.pk # vm}
        d2 == IF set6 /\ other6 # {}
              THEN [d1 EXCEPT !.vms = Save(d1.vms,
                      [Row(d1.vms, MinPk(other6)) EXCEPT !.primary6 = 0])]
              ELSE d1
        me == Row(d2.vms, vm)
    IN [d2 EXCEPT !.vms = Save(d2.vms,
          [me EXCEPT !.primary4 = IF set4 THEN ip4 ELSE me.primary4,
                     !.primary6 = IF set6 THEN ip6 ELSE me.primary6])]

\* the interfaces of the record that the current pass did not report
cleanup_old_interfaces(d, vm, current_iface_names) ==
    DeleteInterfaces(d, {i.pk : i \in {x \in d.ifaces :
                            x.vm = vm /\ x.name \notin current_iface_names}})

\* the interfaces of the network state, in the order reported, loopback
\* skipped; c4 and c6 are the primary candidates found so far
RECURSIVE sync_interfaces(_, _, _, _, _)
sync_interfaces(d, vm, network_state, c4, c6) ==
    IF network_state = <<>>
    THEN [d |-> d, ip4 |-> c4, ip6 |-> c6]
    ELSE LET iface_data == Head(network_state)
         IN IF iface_data.name = "lo"
            THEN sync_interfaces(d, vm, Tail(network_state), c4, c6)
            ELSE LET i == sync_interface(d, vm, iface_data)
                     r == sync_interface_ips(
                             sync_hwaddr(i.d, i.iface, iface_data.hwaddr),
                             i.iface, iface_data.addresses, 0, 0)
                 IN sync_interfaces(r.d, vm, Tail(network_state),
                                    IF r.ip4 # 0 /\ c4 = 0 THEN r.ip4 ELSE c4,
                                    IF r.ip6 # 0 /\ c6 = 0 THEN r.ip6 ELSE c6)

\* instance_data.net is what _get_network_state returns: the network state
\* of the instance data or, when that is empty, of the separate request
\* (<<>>: nothing to go by). Without network state the method returns
\* before any interface is written or deleted
sync_instance_network(d, vm, instance_data) ==
    LET network_state == instance_data.net
        current_iface_names ==
            {network_state[k].name : k \in 1..Len(network_state)} \ {"lo"}
        r == sync_interfaces(d, vm, network_state, 0, 0)
    IN IF network_state = <<>> THEN d
       ELSE cleanup_old_interfaces(set_primary_ips(r.d, vm, r.ip4, r.ip6),
                                   vm, current_iface_names)

----------------------------------------------------------------------------
(* DiskSyncService *)

\* what client.get_storage_volume answers: None (nothing found, or the
\* request failed inside the client), the volume with the size of its
\* config ('' when it has none), or an exception
NotFound == [kind |-> "None", size |-> <<>>]
Volume(size) == [kind |-> "info", size |-> size]
Raised == [kind |-> "raises", size |-> <<>>]

\* except Exception around a lookup: whatever is raised gives None
caught(r) == IF r.kind \in {"int", "None"} THEN r ELSE None

\* the size of the custom volume the device names, as the client answers
get_volume_size(volume_info) ==
    IF volume_info.kind = "info" /\ volume_info.size # <<>>
    THEN caught(parse_size(StrValue(volume_info.size)))
    ELSE None

\* the size of the volume of the instance: asked as a container, and as a
\* virtual machine when that gives nothing
get_instance_disk_usage(volumes) ==
    LET volume_info == IF volumes.container.kind = "None" THEN volumes.vm
                       ELSE volumes.container
    IN IF volumes.container.kind = "raises" THEN None
       ELSE get_volume_size(volume_info)

\* the first of three sizes that is not None or 0, else 0; what the parsing
\* of the size of the device raises is raised
first_size(first, second, third) ==
    IF first.kind \notin {"int", "None"} THEN first
    ELSE IF Truthy(first) THEN first
    ELSE IF Truthy(second) THEN second
    ELSE IF Truthy(third) THEN third
    ELSE Some(0)

\* the size of the device when it parses to a non-zero size; else the size
\* of the volume named by pool and source; else, for the device 'root' with
\* a pool, the size of the volume of the instance; else 0. The call of
\* parse_size on the size of the device is outside any try: what it raises
\* is raised by _get_disk_size
get_disk_size(size_raw, pool, source, disk_name, volumes) ==
    first_size(IF size_raw # <<>> THEN parse_size(StrValue(size_raw)) ELSE None,
               IF source # "" /\ pool # ""
               THEN get_volume_size(volumes.custom) ELSE None,
               IF disk_name = "root" /\ pool # ""
               THEN get_instance_disk_usage(volumes) ELSE None)

\* VirtualDisk.objects.update_or_create(virtual_machine=vm, name=disk_name,
\* defaults={'size': size_mb or 0}), unless the size has raised
update_or_create_disk(d, vm, disk_name, size_mb) ==
    LET have == {k \in d.disks : k.vm = vm /\ k.name = disk_name}
        row == IF have = {}
               THEN [pk |-> FreshPk(d.disks), vm |-> vm, name |-> disk_name,
                     size |-> size_mb.v]
               ELSE [Row(d.disks, MinPk(have)) EXCEPT !.size = size_mb.v]
    IN IF size_mb.kind # "int" THEN [d |-> d, raised |-> TRUE]
       ELSE [d |-> [d EXCEPT !.disks = Save(d.disks, row)], raised |-> FALSE]

\* the disk of a device, with the size the chain gives: the store, and
\* whether the call has raised
sync_disk(d, vm, disk, volumes) ==
    update_or_create_disk(d, vm, disk.name,
        get_disk_size(disk.size, disk.pool, disk.source, disk.name, volumes))

\* the disks of the record that the current device set does not hold
cleanup_old_disks(d, vm, current_disk_names) ==
    [d EXCEPT !.disks = {k \in d.disks :
                           ~(k.vm = vm /\ k.name \notin current_disk_names)}]

\* the loop over the disk devices, in the order reported; it ends at the
\* device whose size raises
RECURSIVE sync_disks(_, _, _, _)
next_disk(r, vm, disk_devices, volumes) ==
    IF r.raised THEN r ELSE sync_disks(r.d, vm, disk_devices, volumes)

sync_disks(d, vm, disk_devices, volumes) ==
    IF disk_devices = <<>> THEN [d |-> d, raised |-> FALSE]
    ELSE next_disk(sync_disk(d, vm, Head(disk_devices), volumes), vm,
                   Tail(disk_devices), volumes)

IsDisk(config) == config.type = "disk"

\* the end of sync_instance_disks: the cleanup, unless a size has raised
after_disks(r, vm, current_disk_names) ==
    IF r.raised THEN r
    ELSE [d |-> cleanup_old_disks(r.d, vm, current_disk_names), raised |-> FALSE]

\* instance_data.devices are the devices of expanded_devices (or of devices
\* when there are none). Without disk device the method returns before any
\* disk is written or deleted; when a size raises, the disks before it are
\* written and none is deleted
sync_instance_disks(d, vm, instance_data) ==
    LET disk_devices == SelectSeq(instance_data.devices, IsDisk)
        current_disk_names == {disk_devices[k].name : k \in 1..Len(disk_devices)}
    IN IF disk_devices = <<>> THEN [d |-> d, raised |-> FALSE]
       ELSE after_disks(sync_disks(d, vm, disk_devices, instance_data.volumes),
                        vm, current_disk_names)

----------------------------------------------------------------------------
(* EventSyncService *)

\* str.lower()
ToLower(c) ==
    IF \E k \in 1..Len(UpperCase) : UpperCase[k] = c
    THEN LowerCase[CHOOSE k \in 1..Len(UpperCase) : UpperCase[k] = c]
    ELSE c

Lower(s) == [k \in 1..Len(s) |-> ToLower(s[k])]

\* the kinds of a journal entry for the event types
EVENT_KIND_MAPPING ==
    {[event |-> "instance-created", kind |-> "success"],
     [event |-> "instance-started", kind |-> "info"],
     [event |-> "instance-stopped", kind |-> "warning"],
     [event |-> "instance-shutdown", kind |-> "warning"],
     [event |-> "instance-restarted", kind |-> "info"],
     [event |-> "instance-paused", kind |-> "warning"],
     [event |-> "instance-resumed", kind |-> "info"],
     [event |-> "instance-deleted", kind |-> "danger"],
     [event |-> "instance-renamed", kind |-> "info"],
     [event |-> "instance-updated", kind |-> "info"],
     [event |-> "instance-snapshot-created", kind |-> "success"],
     [event |-> "instance-snapshot-deleted", kind |-> "warning"],
     [event |-> "instance-snapshot-renamed", kind |-> "info"],
     [event |-> "instance-snapshot-restored", kind |-> "success"],
     [event |-> "instance-migrated", kind |-> "info"],
     [event |-> "instance-backup-created", kind |-> "success"],
     [event |-> "instance-backup-deleted", kind |-> "warning"],
     [event |-> "instance-backup-restored", kind |-> "success"]}

\* the patterns of _detect_event_type, in the order they are tried
mappings ==
    <<[pattern |-> <<"c", "r", "e", "a", "t", "i", "n", "g", " ", "i", "n", "s", "t", "a", "n", "c", "e">>,
       event |-> "instance-created"],
      [pattern |-> <<"s", "t", "a", "r", "t", "i", "n", "g", " ", "i", "n", "s", "t", "a", "n", "c", "e">>,
       event |-> "instance-started"],
      [pattern |-> <<"s", "t", "o", "p", "p", "i", "n", "g", " ", "i", "n", "s", "t", "a", "n", "c", "e">>,
       event |-> "instance-stopped"],
      [pattern |-> <<"s", "h", "u", "t", "t", "i", "n", "g", " ", "d", "o", "w", "n">>,
       event |-> "instance-shutdown"],
      [pattern |-> <<"r", "e", "s", "t", "a", "r", "t", "i", "n", "g", " ", "i", "n", "s", "t", "a", "n", "c", "e">>,
       event |-> "instance-restarted"],
      [pattern |-> <<"p", "a", "u", "s", "i", "n", "g", " ", "i", "n", "s", "t", "a", "n", "c", "e">>,
       event |-> "instance-paused"],
      [pattern |-> <<"r", "e", "s", "u", "m", "i", "n", "g", " ", "i", "n", "s", "t", "a", "n", "c", "e">>,
       event |-> "instance-resumed"],
      [pattern |-> <<"d", "e", "l", "e", "t", "i", "n", "g", " ", "i", "n", "s", "t", "a", "n", "c", "e">>,
       event |-> "instance-deleted"],
      [pattern |-> <<"r", "e", "n", "a", "m", "i", "n", "g", " ", "i", "n", "s", "t", "a", "n", "c", "e">>,
       event |-> "instance-renamed"],
      [pattern |-> <<"u", "p", "d", "a", "t", "i", "n", "g", " ", "i", "n", "s", "t", "a", "n", "c", "e">>,
       event |-> "instance-updated"],
      [pattern |-> <<"c", "r", "e", "a", "t", "i", "n", "g", " ", "i", "n", "s", "t", "a", "n", "c", "e", " ", "s", "n", "a", "p", "s", "h", "o", "t">>,
       event |-> "instance-snapshot-created"],
      [pattern |-> <<"d", "e", "l", "e", "t", "i", "n", "g", " ", "i", "n", "s", "t", "a", "n", "c", "e", " ", "s", "n", "a", "p", "s", "h", "o", "t">>,
       event |-> "instance-snapshot-deleted"],
      [pattern |-> <<"r", "e", "n", "a", "m", "i", "n", "g", " ", "i", "n", "s", "t", "a", "n", "c", "e", " ", "s", "n", "a", "p", "s", "h", "o", "t">>,
       event |-> "instance-snapshot-renamed"],
      [pattern |-> <<"r", "e", "s", "t", "o", "r", "i", "n", "g", " ", "i", "n", "s", "t", "a", "n", "c", "e", " ", "s", "n", "a", "p", "s", "h", "o", "t">>,
       event |-> "instance-snapshot-restored"],
      [pattern |-> <<"m", "i", "g", "r", "a", "t", "i", "n", "g", " ", "i", "n", "s", "t", "a", "n", "c", "e">>,
       event |-> "instance-migrated"],
      [pattern |-> <<"c", "r", "e", "a", "t", "i", "n", "g", " ", "i", "n", "s", "t", "a", "n", "c", "e", " ", "b", "a", "c", "k", "u", "p">>,
       event |-> "instance-backup-created"],
      [pattern |-> <<"d", "e", "l", "e", "t", "i", "n", "g", " ", "i", "n", "s", "t", "a", "n", "c", "e", " ", "b", "a", "c", "k", "u", "p">>,
       event |-> "instance-backup-deleted"],
      [pattern |-> <<"r", "e", "s", "t", "o", "r", "i", "n", "g", " ", "i", "n", "s", "t", "a", "n", "c", "e", " ", "b", "a", "c", "k", "u", "p">>,
       event |-> "instance-backup-restored"]>>

\* pattern in description_lower
Within(pattern, text) ==
    \E k \in 0..Len(text) :
        k + Len(pattern) <= Len(text) /\ SubSeq(text, k + 1, k + Len(pattern)) = pattern

\* the event type of the first pattern the lower-cased description holds
detect_event_type(description) ==
    LET hits == {k \in 1..Len(mappings) : Within(mappings[k].pattern, Lower(description))}
    IN IF hits = {} THEN "unknown"
       ELSE mappings[CHOOSE k \in hits : \A j \in hits : k <= j].event

\* EVENT_KIND_MAPPING.get(event_type, KIND_INFO)
mapped_kind(event_type) ==
    LET rows == {m \in EVENT_KIND_MAPPING : m.event = event_type}
    IN IF rows = {} THEN "info" ELSE (CHOOSE m \in rows : TRUE).kind

\* the kind taken from the mapping alone
entry_kind_mapped(op_status, op_err, event_type) == mapped_kind(event_type)

\* the kind of the entry: danger for a failed operation or one with an
\* error text, else the kind of the event type
entry_kind(op_status, op_err, event_type) ==
    IF op_status = "Failure" \/ op_err # "" THEN "danger"
    ELSE mapped_kind(event_type)

\* op_id[:8], the part of the operation id written in the comment
Frag(op_id) == SubSeq(op_id, 1, IF Len(op_id) < FragLen THEN Len(op_id) ELSE FragLen)

\* comments__contains: the text occurs in the comment's operation fragment
Contains(comment, text) ==
    \E k \in 0..Len(comment) :
        k + Len(text) <= Len(comment) /\ SubSeq(comment, k + 1, k + Len(text)) = text

\* the lookup whose fallback takes a record of the name however many carry it
find_vm_any(V, instance_name, host) ==
    LET byHost == {v \in V : v.name = instance_name /\ v.host = host}
        byName == {v \in V : v.name = instance_name}
    IN IF byHost # {} THEN First(byHost) ELSE First(byName)

\* the record of an instance name: by name and host, else by name alone when
\* exactly one record carries the name
find_vm(V, instance_name, host) ==
    LET byHost == {v \in V : v.name = instance_name /\ v.host = host}
        byName == {v \in V : v.name = instance_name}
    IN IF byHost # {} THEN First(byHost)
       ELSE IF Cardinality(byName) = 1 THEN First(byName) ELSE {0}

\* an entry of the record within one second of op_created whose comment
\* contains the operation fragment
journal_entry_exists(J, vm, op_id, op_created) ==
    \E k \in 1..Len(J) :
        /\ J[k].vm = vm
        /\ J[k].created >= op_created - DedupeWindow
        /\ J[k].created <= op_created + DedupeWindow
        /\ Contains(J[k].frag, Frag(op_id))

\* JournalEntry.created as the store keeps it for a row created with
\* created=op_created: the value passed, or the time of the insert when the
\* store fills the field itself on creation (a DateTimeField declared
\* auto_now_add ignores the value passed to create())
Created(op_created, clock) == IF clock.auto_now_add THEN clock.now ELSE op_created

\* vm is the result of find_vm (0: not found). The entry keeps what the
\* comment is built from: the fragment of the operation id, the status, the
\* error text and the description
create_journal_entry(d, vm, operation, clock) ==
    IF vm = 0 THEN d
    ELSE IF journal_entry_exists(d.journal, vm, operation.id, operation.created) THEN d
    ELSE [d EXCEPT !.journal = Append(d.journal,
            [vm |-> vm, created |-> Created(operation.created, clock),
             frag |-> Frag(operation.id),
             event |-> detect_event_type(operation.description),
             kind |-> entry_kind(operation.status, operation.err,
                                 detect_event_type(operation.description)),
             status |-> operation.status, err |-> operation.err,
             description |-> operation.description])]

\* what _parse_timestamp returns for the created_at of an operation, whose
\* form (stamp) is one of: "utc", an ISO text ending in Z or an offset, of
\* time created (a negative time: a text fromisoformat refuses); "naive", an
\* ISO text without offset; "dots", a text with two points; "garbage", any
\* other text; "empty", '' or a missing key; "number", a JSON number.
\* ValueError (the unpacking of split('.'), fromisoformat) is caught; the
\* TypeError of '.' in a number is not
parse_timestamp(operation) ==
    IF operation.stamp = "empty" THEN [kind |-> "None", t |-> 0]
    ELSE IF operation.stamp = "number" THEN [kind |-> "TypeError", t |-> 0]
    ELSE IF operation.stamp \in {"dots", "garbage"} \/ operation.created < 0
    THEN [kind |-> "None", t |-> 0]
    ELSE IF operation.stamp = "naive" THEN [kind |-> "naive", t |-> operation.created]
    ELSE [kind |-> "aware", t |-> operation.created]

\* if not op_created or op_created < since_time raises: _parse_timestamp
\* has raised, or it has returned a datetime without offset, which cannot be
\* compared with since_time (timezone.now() has one)
stamp_raises(operation) == parse_timestamp(operation).kind \in {"TypeError", "naive"}

\* an operation is examined when its timestamp parses and is not older than
\* since_time
InWindow(operation, since_time) ==
    /\ parse_timestamp(operation).kind = "aware"
    /\ parse_timestamp(operation).t >= since_time

RECURSIVE journal_instances(_, _, _, _, _)
journal_instances(d, operation, insts, found, clock) ==
    IF insts = <<>> THEN d
    ELSE journal_instances(create_journal_entry(d, found[Head(insts)], operation, clock),
                           operation, Tail(insts), found, clock)

\* found[n] is the record find_vm resolves the instance name n to
RECURSIVE sync_events(_, _, _, _, _)
sync_events(d, operations, since_time, found, clock) ==
    IF operations = <<>> THEN d
    ELSE LET operation == Head(operations)
         IN IF ~InWindow(operation, since_time)
            THEN sync_events(d, Tail(operations), since_time, found, clock)
            ELSE sync_events(journal_instances(d, operation, operation.insts, found,
                                               clock),
                             Tail(operations), since_time, found, clock)

\* the operations the loop reaches: those before the first whose timestamp
\* raises
RECURSIVE before_raise(_)
before_raise(operations) ==
    IF operations = <<>> \/ stamp_raises(Head(operations)) THEN <<>>
    ELSE <<Head(operations)>> \o before_raise(Tail(operations))

\* EventSyncService.sync_events as its caller sees it: the store it leaves
\* and whether it has raised
ingest(d, operations, since_time, found, clock) ==
    [d |-> sync_events(d, before_raise(operations), since_time, found, clock),
     raised |-> \E k \in 1..Len(operations) : stamp_raises(operations[k])]

\* the (operation, record) pairs an ingestion examines
Examined(operations, since_time, found) ==
    LET ops == {operations[k] : k \in 1..Len(operations)}
        pairs(op) == {[id |-> op.id, created |-> op.created,
                       vm |-> found[op.insts[m]]] : m \in 1..Len(op.insts)}
    IN {x \in UNION {pairs(op) : op \in {o \in ops : InWindow(o, since_time)}} :
          x.vm # 0}

----------------------------------------------------------------------------
(* What the Incus hosts may report *)

InstanceNames == {"a", "b"}

\* instance lists of at most MaxInstances instances with distinct names
Snapshots(E) ==
    UNION {{s \in [1..n -> E] :
              \A i, j \in 1..n : i # j => s[i].name # s[j].name} :
           n \in 0..MaxInstances}

\* operation lists of at most MaxOps operations
OpLists(O) == UNION {[1..n -> O] : n \in 0..MaxOps}

\* the client finds no storage volume
NoVolumes == [custom |-> NotFound, container |-> NotFound, vm |-> NotFound]

\* an instance of the list: name, volatile.uuid ("" when it has none), raw
\* status, type, network state, devices, the answers of the client about
\* its storage volumes, limits.memory (<<>> when it has none), the devices
\* of its own configuration; fault names what is malformed in it ("config":
\* config is null, "state": state is null, "": nothing)
Instance(n, u, f) ==
    [name |-> n, uuid |-> u, status |-> "Running", type |-> "container",
     net |-> <<>>, devices |-> <<>>, volumes |-> NoVolumes, fault |-> f,
     limits_memory |-> <<>>, local_devices |-> <<>>]

Addr4 == [address |-> "10.0.0.5/24", family |-> "inet", scope |-> "global"]
Addr6 == [address |-> "fd00::5/64", family |-> "inet6", scope |-> "global"]
LinkLocal == [address |-> "fe80::1/64", family |-> "inet6", scope |-> "link"]

Eth(n, addrs) == [name |-> n, up |-> TRUE, addresses |-> addrs, hwaddr |-> <<>>]

OpId1 == <<"a", "b", "c", "d", "1", "2", "3", "4", "x">>
OpId2 == <<"e", "f", "0", "0", "5", "6", "7", "8", "y">>
\* an id that differs from OpId1 after its eighth character only
OpId3 == <<"a", "b", "c", "d", "1", "2", "3", "4", "z">>

\* descriptions of operations as Incus writes them; the last one holds no
\* pattern of _detect_event_type
Starting ==
    <<"S", "t", "a", "r", "t", "i", "n", "g", " ", "i", "n", "s", "t", "a", "n", "c", "e">>
Stopping ==
    <<"S", "t", "o", "p", "p", "i", "n", "g", " ", "i", "n", "s", "t", "a", "n", "c", "e">>
CreatingBackup ==
    <<"C", "r", "e", "a", "t", "i", "n", "g", " ", "i", "n", "s", "t", "a", "n", "c", "e", " ", "b", "a", "c", "k", "u", "p">>
Executing ==
    <<"E", "x", "e", "c", "u", "t", "i", "n", "g", " ", "c", "o", "m", "m", "a", "n", "d">>

\* an operation on instance n: id, created_at, description, status, err
Operation(i, t, n) ==
    [id |-> i, created |-> t, insts |-> <<n>>, description |-> Starting,
     status |-> "Success", err |-> "", stamp |-> "utc"]

----------------------------------------------------------------------------
(* The jobs *)

\* no pass of the host has been recorded
NoPass ==
    [snap |-> <<>>, deleted |-> {}, outcome |-> "none",
     state |-> [records |-> {}, count |-> <<0, 0, 0, 0, 0>>]]

\* no job is running and none has run
JobsIdle ==
    /\ now = 0
    /\ job = "none" /\ pc = "idle" /\ hostq = <<>> /\ cur = ""
    /\ instances = <<>> /\ idx = 1 /\ names = {}
    /\ since = 0
    /\ visited = {} /\ failed = {} /\ synced = {} /\ removed = {} /\ outcome = "none"
    /\ atStart = {} /\ prev = [h \in HostSet |-> NoPass] /\ repeat = "no"
    /\ seen = {}
    /\ value = NoneValue /\ returned = None

Init ==
    /\ vms = {} /\ ifaces = {} /\ ips = {} /\ disks = {} /\ macs = {}
    /\ journal = <<>>
    /\ JobsIdle
    /\ arb = <<>>

store == <<vms, ifaces, ips, disks, macs, journal>>
pass == <<instances, idx, names, synced, removed>>
hist == <<atStart, prev, repeat>>
aside == <<value, returned, arb>>

SetStore(d) ==
    /\ vms' = d.vms /\ ifaces' = d.ifaces /\ ips' = d.ips /\ disks' = d.disks
    /\ macs' = d.macs /\ journal' = d.journal

\* timezone.now() advances between two runs
Tick ==
    /\ pc = "idle" /\ now < MaxTime
    /\ now' = now + 1
    /\ UNCHANGED <<store, job, pc, hostq, cur, pass, since, visited, failed,
                   outcome, hist, seen>>
    /\ UNCHANGED aside

\* SyncIncusJob.run up to its loop over the enabled hosts
StartFullSync(hosts) ==
    /\ pc = "idle"
    /\ job' = "full" /\ pc' = "next" /\ hostq' = hosts
    /\ since' = FullSyncSince
    /\ visited' = {} /\ failed' = {} /\ outcome' = "none"
    /\ UNCHANGED <<store, now, cur, pass, hist, seen>>
    /\ UNCHANGED aside

\* SyncEventsJob.run up to its loop over the enabled hosts
StartEventsSync(hosts, since_minutes) ==
    /\ pc = "idle"
    /\ job' = "events" /\ pc' = "next" /\ hostq' = hosts
    /\ since' = since_minutes
    /\ visited' = {} /\ failed' = {} /\ outcome' = "none"
    /\ UNCHANGED <<store, now, cur, pass, hist, seen>>
    /\ UNCHANGED aside

\* the loop takes the next host
NextHost(track) ==
    /\ pc = "next" /\ hostq # <<>>
    /\ cur' = Head(hostq) /\ hostq' = Tail(hostq)
    /\ visited' = visited \cup {Head(hostq)}
    /\ pc' = "connect"
    /\ instances' = <<>> /\ idx' = 1 /\ names' = {} /\ synced' = {}
    /\ removed' = {}
    /\ outcome' = "running"
    /\ atStart' = IF track
                  THEN {[pk |-> v.pk, name |-> v.name, uuid |-> v.uuid] :
                          v \in {x \in vms : MANAGED \in x.tags /\ x.host = Head(hostq)}}
                  ELSE {}
    /\ UNCHANGED <<store, now, job, since, failed, prev, repeat, seen>>
    /\ UNCHANGED aside

\* the loop is over: the run returns
RunDone ==
    /\ pc = "next" /\ hostq = <<>>
    /\ job' = "none" /\ pc' = "idle" /\ cur' = ""
    /\ instances' = <<>> /\ idx' = 1 /\ names' = {} /\ synced' = {}
    /\ removed' = {}
    /\ since' = 0 /\ visited' = {} /\ failed' = {} /\ outcome' = "none"
    /\ atStart' = {} /\ repeat' = "no"
    /\ UNCHANGED <<store, now, hostq, prev, seen>>
    /\ UNCHANGED aside

\* the record state a pass leaves, without primary keys: per record its
\* fields, interfaces with their addresses, disks and journal entries
View(d, v) ==
    LET AddrOf(pk) == IF pk = 0 THEN "" ELSE Row(d.ips, pk).address
        OfVm(j) == j.vm = v.pk
        Entry(j) == [created |-> j.created, frag |-> j.frag]
        js == SelectSeq(d.journal, OfVm)
    IN [name |-> v.name, status |-> v.status, uuid |-> v.uuid, host |-> v.host,
        tags |-> v.tags, primary4 |-> AddrOf(v.primary4),
        primary6 |-> AddrOf(v.primary6),
        ifaces |-> {[name |-> i.name, enabled |-> i.enabled,
                     n |-> Cardinality({x \in d.ifaces : x.vm = v.pk /\ x.name = i.name}),
                     addresses |-> {a.address : a \in {x \in d.ips : x.iface = i.pk}}]
                    : i \in {x \in d.ifaces : x.vm = v.pk}},
        disks |-> {[name |-> k.name, size |-> k.size] :
                    k \in {x \in d.disks : x.vm = v.pk}},
        journal |-> [k \in 1..Len(js) |-> Entry(js[k])]]

RecordState(d) ==
    [records |-> {View(d, v) : v \in d.vms},
     count |-> <<Cardinality(d.vms), Cardinality(d.ifaces), Cardinality(d.ips),
                 Cardinality(d.disks), Len(d.journal)>>]

\* the (operation, record) pairs whose record is still in the store
Live(S, V) == {x \in S : \E v \in V : v.pk = x.op.vm}

\* the pairs observed so far with the number of ingestions that examined
\* them (2: two or more)
Observe(S, X) ==
    LET Known(x) == \E y \in S : y.op = x
    IN {y \in S : y.op \notin X}
       \cup {[op |-> x, n |-> IF Known(x) THEN 2 ELSE 1] : x \in X}

\* a host pass ends: the loop goes on with the next host
EndPass(result, d, track) ==
    /\ outcome' = result
    /\ failed' = IF result = "ok" THEN failed ELSE failed \cup {cur}
    /\ pc' = "next"
    /\ prev' = IF track
               THEN [prev EXCEPT ![cur] = [snap |-> instances, deleted |-> removed,
                                           state |-> RecordState(d),
                                           outcome |-> result]]
               ELSE prev
    /\ repeat' = IF track /\ result = "ok" /\ prev[cur].outcome = "ok"
                    /\ prev[cur].snap = instances
                 THEN IF prev[cur].state = RecordState(d) THEN "same" ELSE "differs"
                 ELSE "no"
    /\ atStart' = atStart

\* client.test_connection() reports a failure: the host is skipped
ConnectFails(track) ==
    /\ pc = "connect"
    /\ EndPass("refused", DB, track)
    /\ UNCHANGED <<store, now, job, hostq, cur, pass, since, visited, seen>>
    /\ UNCHANGED aside

\* an exception raised while the host is processed propagates out of the run
process_host_reraise(d, track) ==
    /\ outcome' = "error"
    /\ failed' = failed \cup {cur}
    /\ pc' = "crashed"
    /\ UNCHANGED hist

\* except Exception of _process_host and of SyncEventsJob.run: the error is
\* logged and the loop goes on with the next host
process_host_except(d, track) ==
    EndPass("error", d, track)

\* a call of the client raises: IncusClient(host), test_connection(),
\* get_instances() before the instances, get_operations() after them
ClientRaises(track) ==
    /\ pc \in {"connect", "events"}
    /\ process_host_except(DB, track)
    /\ UNCHANGED <<store, now, job, hostq, cur, pass, since, visited, seen>>
    /\ UNCHANGED aside

\* client.get_instances(recursion=2) of a host that answered
FetchInstances(E) ==
    /\ pc = "connect" /\ job = "full"
    /\ \E s \in Snapshots(E) : instances' = s
    /\ pc' = "instances"
    /\ UNCHANGED <<store, now, job, hostq, cur, idx, names, synced, removed, since,
                   visited, failed, outcome, hist, seen>>
    /\ UNCHANGED aside

\* the end of a turn of the loop: r is what sync_instance_disks left. When
\* it has raised the host pass ends in error; else the loop goes on
EndTurn(r, vm_name, track) ==
    /\ SetStore(r.d)
    /\ IF r.raised
       THEN /\ process_host_except(r.d, track)
            /\ UNCHANGED <<idx, synced>>
       ELSE /\ idx' = idx + 1
            /\ synced' = synced \cup {vm_name}
            /\ UNCHANGED <<pc, outcome, failed, hist>>

\* the body of the loop: sync_instance, then sync_instance_network and
\* sync_instance_disks of the record it returns
sync_turn(d, instance_data, host, existing) ==
    IF sync_instance_raises(instance_data) THEN [d |-> d, raised |-> TRUE]
    ELSE sync_instance_disks(
            sync_instance_network(
                sync_instance(d, instance_data, host, existing),
                vm_pk(d, existing), instance_data),
            vm_pk(d, existing), instance_data)

\* one turn of the loop over the instances
SyncInstance(track) ==
    /\ pc = "instances" /\ idx <= Len(instances)
    /\ LET instance_data == instances[idx]
       IN /\ names' = names \cup {instance_data.name}
          /\ \/ /\ instance_data.fault = "config"
                /\ process_host_except(DB, track)
                /\ UNCHANGED <<store, idx, synced>>
             \/ /\ instance_data.fault = "state"
                /\ \E existing \in find_existing_vm(vms, instance_data.name,
                                                     instance_data.uuid, cur) :
                     LET d1 == sync_instance(DB, instance_data, cur, existing)
                     IN SetStore(d1) /\ process_host_except(d1, track)
                /\ UNCHANGED <<idx, synced>>
             \/ /\ instance_data.fault = ""
                /\ \E existing \in find_existing_vm(vms, instance_data.name,
                                                     instance_data.uuid, cur) :
                     EndTurn(sync_turn(DB, instance_data, cur, existing),
                             instance_data.name, track)
    /\ seen' = Live(seen, vms')
    /\ UNCHANGED <<now, job, hostq, cur, instances, removed, since, visited>>
    /\ UNCHANGED aside

\* the identities _process_host hands to handle_deletions
deletion_identities == names

\* instance_service.handle_deletions(cluster, host, incus_instance_names)
HandleDeletionsEarly ==
    /\ pc = "instances"
    /\ LET d1 == handle_deletions(DB, cur, deletion_identities)
       IN /\ SetStore(d1)
          /\ removed' = {[pk |-> v.pk, name |-> v.name, uuid |-> v.uuid] :
                            v \in {x \in vms : \A y \in d1.vms : y.pk # x.pk}}
    /\ pc' = "events"
    /\ seen' = Live(seen, vms')
    /\ UNCHANGED <<now, job, hostq, cur, instances, idx, names, synced, since,
                   visited, failed, outcome, hist>>
    /\ UNCHANGED aside

HandleDeletions ==
    /\ pc = "instances" /\ idx > Len(instances)
    /\ LET d1 == handle_deletions(DB, cur, deletion_identities)
       IN /\ SetStore(d1)
          /\ removed' = {[pk |-> v.pk, name |-> v.name, uuid |-> v.uuid] :
                            v \in {x \in vms : \A y \in d1.vms : y.pk # x.pk}}
    /\ pc' = "events"
    /\ seen' = Live(seen, vms')
    /\ UNCHANGED <<now, job, hostq, cur, instances, idx, names, synced, since,
                   visited, failed, outcome, hist>>
    /\ UNCHANGED aside

\* the end of sync_events for its caller: r is what ingest gives. When it
\* has raised, the except Exception of the job ends the host pass in error
EndEvents(r, examined, track) ==
    /\ Len(r.d.journal) <= MaxJournal
    /\ SetStore(r.d)
    /\ IF r.raised THEN process_host_except(r.d, track) ELSE EndPass("ok", r.d, track)
    /\ seen' = Observe(seen, examined)

\* event_service.sync_events(host, client, since_minutes) on the operations
\* the client returns; in the full job it ends the host pass (the networks
\* are only logged)
SyncEvents(O, track) ==
    /\ \/ pc = "events"
       \/ pc = "connect" /\ job = "events"
    /\ \E operations \in OpLists(O) :
         \E found \in [InstanceNames -> {0} \cup {v.pk : v \in vms}] :
          \E auto_now_add \in BOOLEAN :
            /\ \A n \in InstanceNames : found[n] \in find_vm(vms, n, cur)
            /\ EndEvents(ingest(DB, operations, now - 60 * since, found,
                                [auto_now_add |-> auto_now_add, now |-> now]),
                         Examined(before_raise(operations), now - 60 * since, found),
                         track /\ job = "full")
    /\ UNCHANGED <<now, job, hostq, cur, pass, since, visited>>
    /\ UNCHANGED aside

----------------------------------------------------------------------------
(* Specifications *)

\* instances with or without UUID, well-formed or not, without network state
PlainInstances ==
    {Instance(n, u, f) : n \in InstanceNames, u \in {"", "u1"},
                         f \in {"", "state"}}

Next ==
    \/ StartFullSync(Hosts)
    \/ StartEventsSync(Hosts, FullSyncSince)
    \/ NextHost(FALSE)
    \/ RunDone
    \/ ConnectFails(FALSE)
    \/ ClientRaises(FALSE)
    \/ FetchInstances(PlainInstances)
    \/ SyncInstance(FALSE)
    \/ HandleDeletions
    \/ SyncEvents({}, FALSE)

Spec == Init /\ [][Next]_vars

\* successive full runs over one host, the passes recorded; an instance may
\* bear the name "u1", the text of a UUID
PassInstances ==
    {Instance(n, u, f) : n \in InstanceNames, u \in {"", "u1"},
                         f \in {"", "config"}}
    \cup {Instance("u1", "", "")}

NextPass ==
    \/ StartFullSync(<<Hosts[1]>>)
    \/ NextHost(TRUE)
    \/ RunDone
    \/ ConnectFails(TRUE)
    \/ ClientRaises(TRUE)
    \/ FetchInstances(PassInstances)
    \/ SyncInstance(TRUE)
    \/ HandleDeletions
    \/ SyncEvents({}, TRUE)

SpecPass == Init /\ [][NextPass]_vars

\* full runs over one host whose instances report a network state
NetStates ==
    {<<>>,
     <<Eth("eth0", <<Addr4>>)>>,
     <<Eth("eth0", <<Addr4, Addr6>>)>>,
     <<Eth("lo", <<Addr4>>), Eth("eth1", <<LinkLocal, Addr6>>)>>,
     <<Eth("eth0", <<Addr4>>), Eth("eth1", <<Addr4>>)>>}

NetInstances ==
    {[Instance(n, "", "") EXCEPT !.net = s] : n \in InstanceNames, s \in NetStates}

NextNet ==
    \/ StartFullSync(<<Hosts[1]>>)
    \/ NextHost(FALSE)
    \/ RunDone
    \/ ConnectFails(FALSE)
    \/ ClientRaises(FALSE)
    \/ FetchInstances(NetInstances)
    \/ SyncInstance(FALSE)
    \/ HandleDeletions
    \/ SyncEvents({}, FALSE)

SpecNet == Init /\ [][NextNet]_vars

\* full runs and event runs over one host while time passes; the host
\* reports one instance and the operations on it
EventsSince == 30

EventInstances == {Instance("a", "", "")}

Operations == {Operation(OpId1, 0, "a"), Operation(OpId2, 1, "a")}

NextEvents ==
    \/ Tick
    \/ StartFullSync(<<Hosts[1]>>)
    \/ StartEventsSync(<<Hosts[1]>>, EventsSince)
    \/ NextHost(FALSE)
    \/ RunDone
    \/ ConnectFails(FALSE)
    \/ ClientRaises(FALSE)
    \/ FetchInstances(EventInstances)
    \/ SyncInstance(FALSE)
    \/ HandleDeletions
    \/ SyncEvents(Operations, FALSE)

SpecEvents == Init /\ [][NextEvents]_vars

\* successive full runs over one host, the passes recorded; the instances
\* differ in type and raw status, either of which may be missing
Types == {"container", "virtual-machine", Missing}

Statuses == {"Running", "Stopped", "running", Missing}

TypedInstances ==
    {[Instance("a", "", "") EXCEPT !.type = t, !.status = st] :
        t \in Types, st \in Statuses}
    \cup {Instance("b", "", ""),
          [Instance("b", "", "") EXCEPT !.type = "virtual-machine",
                                        !.status = "Stopped"]}

NextInst ==
    \/ StartFullSync(<<Hosts[1]>>)
    \/ NextHost(TRUE)
    \/ RunDone
    \/ ConnectFails(TRUE)
    \/ ClientRaises(TRUE)
    \/ FetchInstances(TypedInstances)
    \/ SyncInstance(TRUE)
    \/ HandleDeletions
    \/ SyncEvents({}, TRUE)

SpecInst == Init /\ [][NextInst]_vars

\* full runs over one host whose instances have devices; the client answers
\* the requests about their storage volumes
Disk(n, size, pool, source) ==
    [name |-> n, type |-> "disk", size |-> size, pool |-> pool, source |-> source]

Nic(n) == [name |-> n, type |-> "nic", size |-> <<>>, pool |-> "", source |-> ""]

\* sizes as Incus writes them: 10240 MB, 4096 MB, 2048 MB, 1024 MB, less
\* than one MB, a unit parse_size does not know, and a text float() reads
\* as the infinite float
Size10G == <<"1", "0", "G", "i", "B">>
Size4G == <<"4", "G", "i", "B">>
Size2G == <<"2", "G", "i", "B">>
Size1G == <<"1", "G", "i", "B">>
Size512K == <<"5", "1", "2", "K", "i", "B">>
Size1T == <<"1", "T", "i", "B">>
SizeInf == <<"i", "n", "f", "G", "i", "B">>

\* the answers about the volume of the instance, as a container and as a
\* virtual machine
OwnVolumes ==
    {<<NotFound, NotFound>>, <<Volume(Size4G), NotFound>>,
     <<NotFound, Volume(Size1G)>>, <<Volume(<<>>), NotFound>>,
     <<Raised, NotFound>>}

\* the answers about a custom volume
CustomVolumes ==
    {NotFound, Raised, Volume(Size2G), Volume(<<>>), Volume(SizeInf)}

\* a pool and a source: a volume of a pool, or a directory of the host
Sources == {<<"default", "vol1">>, <<"", "/mnt">>}

RootOnly ==
    {[Instance("a", "", "") EXCEPT
        !.devices = <<Disk("root", size, "default", "")>>,
        !.volumes = [custom |-> NotFound, container |-> own[1], vm |-> own[2]]] :
     size \in {<<>>, Size10G, Size512K, Size1T, SizeInf}, own \in OwnVolumes}

DataOnly ==
    {[Instance("a", "", "") EXCEPT
        !.devices = <<Nic("eth0"), Disk("data", size, src[1], src[2])>>,
        !.volumes = [custom |-> custom, container |-> NotFound, vm |-> NotFound]] :
     size \in {<<>>, Size10G, Size1T}, src \in Sources, custom \in CustomVolumes}

Others ==
    {Instance("a", "", ""), Instance("b", "", ""),
     [Instance("a", "", "") EXCEPT !.devices = <<Nic("eth0")>>],
     [Instance("a", "", "") EXCEPT
        !.devices = <<Disk("root", <<>>, "default", ""),
                      Disk("data", <<>>, "default", "vol1")>>,
        !.volumes = [custom |-> Volume(Size2G), container |-> Volume(Size4G),
                     vm |-> NotFound]],
     [Instance("a", "", "") EXCEPT
        !.devices = <<Disk("data", Size10G, "default", "vol1"),
                      Disk("root", SizeInf, "default", "")>>]}

DiskInstances == RootOnly \cup DataOnly \cup Others

NextDisk ==
    \/ StartFullSync(<<Hosts[1]>>)
    \/ NextHost(FALSE)
    \/ RunDone
    \/ ConnectFails(FALSE)
    \/ ClientRaises(FALSE)
    \/ FetchInstances(DiskInstances)
    \/ SyncInstance(FALSE)
    \/ HandleDeletions
    \/ SyncEvents({}, FALSE)

SpecDisk == Init /\ [][NextDisk]_vars

\* full runs over one host whose instances report interfaces with a
\* hardware address
Mac1 == <<"0", "0", ":", "1", "6", ":", "3", "e", ":", "a", "a", ":", "b", "b",
          ":", "0", "1">>
Mac2 == <<"0", "0", ":", "1", "6", ":", "3", "E", ":", "C", "C", ":", "D", "D",
          ":", "0", "2">>

EthMac(n, hwaddr) == [Eth(n, <<>>) EXCEPT !.hwaddr = hwaddr]

HwAddrs == {<<>>, ZeroMac, Mac1, Upper(Mac1), Mac2}

MacStates ==
    {<<EthMac("eth0", hw)>> : hw \in HwAddrs}
    \cup {<<EthMac("eth1", Mac1)>>,
          <<EthMac("eth0", Mac1), EthMac("eth1", Mac2)>>}

MacInstances ==
    {[Instance("a", "", "") EXCEPT !.net = s] : s \in MacStates}
    \cup {[Instance("b", "", "") EXCEPT !.net = <<EthMac("eth0", Mac1)>>]}

NextMac ==
    \/ StartFullSync(<<Hosts[1]>>)
    \/ NextHost(FALSE)
    \/ RunDone
    \/ ConnectFails(FALSE)
    \/ ClientRaises(FALSE)
    \/ FetchInstances(MacInstances)
    \/ SyncInstance(FALSE)
    \/ HandleDeletions
    \/ SyncEvents({}, FALSE)

SpecMac == Init /\ [][NextMac]_vars

\* full runs over one host whose instances report the same interfaces in
\* one order of the map of the network state or the other
Addr4b == [address |-> "10.0.0.6/24", family |-> "inet", scope |-> "global"]

OrderStates ==
    {<<Eth("eth0", <<Addr4>>), Eth("eth1", <<Addr4b>>)>>,
     <<Eth("eth1", <<Addr4b>>), Eth("eth0", <<Addr4>>)>>,
     <<Eth("eth0", <<LinkLocal>>), Eth("eth1", <<Addr4b, Addr6>>)>>,
     <<Eth("eth1", <<Addr4b, Addr6>>), Eth("eth0", <<LinkLocal>>)>>,
     <<Eth("lo", <<Addr4>>), Eth("eth0", <<Addr6>>)>>}

OrderInstances ==
    {[Instance("a", "", "") EXCEPT !.net = s] : s \in OrderStates}
    \cup {[Instance("b", "", "") EXCEPT !.net = <<Eth("eth0", <<Addr4>>)>>]}

NextOrder ==
    \/ StartFullSync(<<Hosts[1]>>)
    \/ NextHost(FALSE)
    \/ RunDone
    \/ ConnectFails(FALSE)
    \/ ClientRaises(FALSE)
    \/ FetchInstances(OrderInstances)
    \/ SyncInstance(FALSE)
    \/ HandleDeletions
    \/ SyncEvents({}, FALSE)

SpecOrder == Init /\ [][NextOrder]_vars

\* full runs over two hosts whose instances report addresses, one of them on
\* both hosts
ScopeInstances ==
    {[Instance("a", "", "") EXCEPT !.net = <<Eth("eth0", <<Addr4>>)>>],
     [Instance("b", "u1", "") EXCEPT
         !.net = <<Eth("eth0", <<Addr4b>>), Eth("eth1", <<Addr4>>)>>],
     Instance("b", "u1", ""),
     Instance("a", "u2", "")}

NextScope ==
    \/ StartFullSync(Hosts)
    \/ NextHost(FALSE)
    \/ RunDone
    \/ ConnectFails(FALSE)
    \/ ClientRaises(FALSE)
    \/ FetchInstances(ScopeInstances)
    \/ SyncInstance(FALSE)
    \/ HandleDeletions
    \/ SyncEvents({}, FALSE)

SpecScope == Init /\ [][NextScope]_vars

\* runs of both jobs over two hosts with the client as incus_client.py
\* defines it. What get_server_info gives: the server information, nothing,
\* or an exception
ServerAnswers ==
    {"info", "None", "FileNotFoundError", "PermissionError", "ConnectionError",
     "Exception"}

\* IncusClient.test_connection: the pair (success, message)
test_connection(info) ==
    IF info = "info" THEN <<TRUE, "connected">>
    ELSE IF info = "None" THEN <<FALSE, "invalid answer">>
    ELSE <<FALSE, info>>

\* success, message, _ = client.test_connection() followed by
\* if not success: the unpacking of a tuple that has not three items raises
\* ValueError
connection_gate(result) ==
    IF Len(result) # 3 THEN "ValueError"
    ELSE IF ~result[1] THEN "skipped"
    ELSE "proceeds"

\* the connection test of the host and what the job makes of it
TestConnection(track) ==
    /\ pc = "connect"
    /\ \E info \in ServerAnswers :
          /\ returned' = test_connection(info)
          /\ IF connection_gate(test_connection(info)) = "ValueError"
             THEN process_host_except(DB, track)
             ELSE IF connection_gate(test_connection(info)) = "skipped"
             THEN EndPass("refused", DB, track)
             ELSE pc' = "fetch" /\ UNCHANGED <<outcome, failed, hist>>
    /\ UNCHANGED <<store, now, job, hostq, cur, pass, since, visited, seen,
                   value, arb>>

NextGate ==
    \/ Tick
    \/ StartFullSync(Hosts)
    \/ StartEventsSync(Hosts, EventsSince)
    \/ NextHost(FALSE)
    \/ TestConnection(FALSE)
    \/ RunDone

SpecGate == Init /\ [][NextGate]_vars

\* full runs over the first host and event runs over both, whose
\* operations are on instances of the same name
OwnerInstances ==
    {Instance("a", "", ""), Instance("a", "u1", ""), Instance("b", "u1", ""),
     Instance("b", "", "state")}

OwnerOperations == {Operation(OpId1, 0, "a")}

NextOwner ==
    \/ StartFullSync(<<Hosts[1]>>)
    \/ StartEventsSync(Hosts, EventsSince)
    \/ NextHost(FALSE)
    \/ RunDone
    \/ ConnectFails(FALSE)
    \/ ClientRaises(FALSE)
    \/ FetchInstances(OwnerInstances)
    \/ SyncInstance(FALSE)
    \/ HandleDeletions
    \/ SyncEvents(OwnerOperations, FALSE)

SpecOwner == Init /\ [][NextOwner]_vars

\* full runs over one host where an instance name comes back under another
\* UUID, and where a pass can end on an instance that raises
IdentInstances ==
    {Instance("a", "u1", ""), Instance("a", "u2", ""), Instance("b", "", "state"),
     Instance("b", "", "")}

NextIdent ==
    \/ StartFullSync(<<Hosts[1]>>)
    \/ NextHost(FALSE)
    \/ RunDone
    \/ ConnectFails(FALSE)
    \/ ClientRaises(FALSE)
    \/ FetchInstances(IdentInstances)
    \/ SyncInstance(FALSE)
    \/ HandleDeletions
    \/ SyncEvents({}, FALSE)

SpecIdent == Init /\ [][NextIdent]_vars

\* full runs and event runs over one host whose operations are simultaneous
\* and bear ids that begin alike or not
DedupeOperations ==
    {Operation(OpId1, 0, "a"), Operation(OpId2, 0, "a"), Operation(OpId3, 0, "a")}

NextDedupe ==
    \/ Tick
    \/ StartFullSync(<<Hosts[1]>>)
    \/ StartEventsSync(<<Hosts[1]>>, EventsSince)
    \/ NextHost(FALSE)
    \/ RunDone
    \/ ConnectFails(FALSE)
    \/ ClientRaises(FALSE)
    \/ FetchInstances(EventInstances)
    \/ SyncInstance(FALSE)
    \/ HandleDeletions
    \/ SyncEvents(DedupeOperations, FALSE)

SpecDedupe == Init /\ [][NextDedupe]_vars

\* full runs and event runs over one host whose operations are described by
\* each pattern of the list, by two of them in upper case, or by no pattern
ClassDescriptions ==
    {mappings[m].pattern : m \in 1..Len(mappings)}
    \cup {Upper(mappings[m].pattern) : m \in {2, 14}}
    \cup {Executing}

ClassOperations ==
    {[Operation(OpId1, 0, "a") EXCEPT !.description = dsc] : dsc \in ClassDescriptions}

NextClass ==
    \/ StartFullSync(<<Hosts[1]>>)
    \/ StartEventsSync(<<Hosts[1]>>, EventsSince)
    \/ NextHost(FALSE)
    \/ RunDone
    \/ ConnectFails(FALSE)
    \/ ClientRaises(FALSE)
    \/ FetchInstances(EventInstances)
    \/ SyncInstance(FALSE)
    \/ HandleDeletions
    \/ SyncEvents(ClassOperations, FALSE)

SpecClass == Init /\ [][NextClass]_vars

\* full runs and event runs over one host whose operations have a created_at
\* of every form
Stamps == {"utc", "naive", "dots", "garbage", "empty", "number"}

StampOperations ==
    {Operation(OpId1, 0, "a")}
    \cup {[Operation(OpId2, 0, "a") EXCEPT !.stamp = st] : st \in Stamps \ {"utc"}}

NextStamp ==
    \/ Tick
    \/ StartFullSync(<<Hosts[1]>>)
    \/ StartEventsSync(<<Hosts[1]>>, EventsSince)
    \/ NextHost(FALSE)
    \/ RunDone
    \/ ConnectFails(FALSE)
    \/ ClientRaises(FALSE)
    \/ FetchInstances(EventInstances)
    \/ SyncInstance(FALSE)
    \/ HandleDeletions
    \/ SyncEvents(StampOperations, FALSE)

SpecStamp == Init /\ [][NextStamp]_vars

\* full runs over one host whose instances have a memory limit and devices
\* of their own
LocalDisk(n, path, size) == [name |-> n, type |-> "disk", path |-> path, size |-> size]

LocalNic(n) == [name |-> n, type |-> "nic", path |-> "", size |-> <<>>]

MemoryLimits == {<<>>, Size2G, Size1G, Size512K, Size1T, SizeInf}

LocalDevices ==
    {<<>>,
     <<LocalDisk("root", "/", Size10G)>>,
     <<LocalNic("eth0"), LocalDisk("root", "/", Size4G)>>,
     <<LocalDisk("root", "/", <<>>)>>,
     <<LocalDisk("root", "/", Size1T)>>,
     <<LocalDisk("root", "/", SizeInf)>>,
     <<LocalDisk("data", "/data", Size2G)>>,
     <<LocalDisk("root", "/", Size512K), LocalDisk("again", "/", Size2G)>>}

ResourceInstances ==
    {[Instance("a", "", "") EXCEPT !.limits_memory = m] : m \in MemoryLimits}
    \cup {[Instance("a", "", "") EXCEPT !.local_devices = dv] : dv \in LocalDevices}
    \cup {[Instance("a", "u1", "") EXCEPT !.limits_memory = Size1G,
                                          !.local_devices = <<LocalDisk("root", "/", Size10G)>>],
          [Instance("b", "", "") EXCEPT !.limits_memory = Size2G,
                                        !.local_devices = <<LocalDisk("root", "/", Size4G)>>],
          Instance("b", "", "")}

NextRes ==
    \/ StartFullSync(<<Hosts[1]>>)
    \/ NextHost(FALSE)
    \/ RunDone
    \/ ConnectFails(FALSE)
    \/ ClientRaises(FALSE)
    \/ FetchInstances(ResourceInstances)
    \/ SyncInstance(FALSE)
    \/ HandleDeletions
    \/ SyncEvents({}, FALSE)

SpecRes == Init /\ [][NextRes]_vars

\* full runs and event runs over one host; the operations differ in
\* description, status and error text
Descriptions == {Starting, CreatingBackup, Executing}

KindOperations ==
    {[Operation(IF e = "" THEN OpId1 ELSE OpId2, 0, "a") EXCEPT
        !.description = dsc, !.status = st, !.err = e] :
     dsc \in Descriptions, st \in {"Success", "Failure"}, e \in {"", "boom"}}
    \cup {[Operation(OpId1, 0, "a") EXCEPT !.description = Stopping,
                                           !.status = "Running"]}

NextKinds ==
    \/ StartFullSync(<<Hosts[1]>>)
    \/ StartEventsSync(<<Hosts[1]>>, EventsSince)
    \/ NextHost(FALSE)
    \/ RunDone
    \/ ConnectFails(FALSE)
    \/ ClientRaises(FALSE)
    \/ FetchInstances(EventInstances)
    \/ SyncInstance(FALSE)
    \/ HandleDeletions
    \/ SyncEvents(KindOperations, FALSE)

SpecKinds == Init /\ [][NextKinds]_vars

\* two job runs on two workers, each in _set_primary_ips for the record of
\* the instance it is synchronising
Workers == {"w1", "w2"}

\* the store two full passes leave: record 1 reported both addresses on its
\* interface and holds them as primary, records 2 and 3 hold none
ArbStore ==
    [vms |-> {[pk |-> n, name |-> <<"a", "b", "c">>[n], status |-> "active",
               uuid |-> "", host |-> Hosts[1], tags |-> {MANAGED, CONTAINER},
               primary4 |-> IF n = 1 THEN 1 ELSE 0,
               primary6 |-> IF n = 1 THEN 2 ELSE 0] : n \in 1..3},
     ifaces |-> {[pk |-> n, vm |-> n, name |-> "eth0", enabled |-> TRUE,
                  primary_mac |-> 0] : n \in 1..3},
     ips |-> {[pk |-> 1, address |-> Addr4.address, iface |-> 1],
              [pk |-> 2, address |-> Addr6.address, iface |-> 1]}]

NoRow == [pk |-> 0]

WorkerIdle == [pc |-> "idle", vm |-> NoRow, ip4 |-> 0, ip6 |-> 0, other |-> NoRow,
               updated |-> FALSE]

InitArb ==
    /\ vms = ArbStore.vms /\ ifaces = ArbStore.ifaces /\ ips = ArbStore.ips
    /\ disks = {} /\ macs = {} /\ journal = <<>>
    /\ JobsIdle
    /\ arb = [w \in Workers |-> WorkerIdle]

arb_frame == <<ifaces, ips, disks, macs, journal, now, job, pc, hostq, cur, pass, since,
               visited, failed, outcome, hist, seen, value, returned>>

\* the store accepts a row only if no other row holds its primary addresses
\* (primary_ip4 and primary_ip6 are one-to-one fields)
Accepts(V, row) ==
    \A v \in V : v.pk # row.pk =>
        /\ (row.primary4 = 0 \/ v.primary4 # row.primary4)
        /\ (row.primary6 = 0 \/ v.primary6 # row.primary6)

\* a worker enters _set_primary_ips(vm, ip4, ip6) with the record it loaded
\* and the address rows it has just synchronised
ArbStart(w) ==
    /\ arb # <<>> /\ arb[w].pc \in {"idle", "error"}
    /\ \E v \in vms : \E c4 \in {0, 1} : \E c6 \in {0, 2} :
          /\ \A o \in Workers \ {w} : arb[o].vm.pk # v.pk
          /\ arb' = [arb EXCEPT ![w] = [pc |-> "lookup4", vm |-> v, ip4 |-> c4,
                                         ip6 |-> c6, other |-> NoRow,
                                         updated |-> FALSE]]
    /\ UNCHANGED <<vms, arb_frame>>

\* if ip and vm.primary_ip_id != ip.pk: the query for another holder
ArbLookup(w) ==
    /\ arb # <<>> /\ arb[w].pc \in {"lookup4", "lookup6"}
    /\ LET a == arb[w]
           v4 == a.pc = "lookup4"
           ip == IF v4 THEN a.ip4 ELSE a.ip6
           mine == IF v4 THEN a.vm.primary4 ELSE a.vm.primary6
           holders == {v \in vms : (IF v4 THEN v.primary4 ELSE v.primary6) = ip
                                    /\ v.pk # a.vm.pk}
           after == IF v4 THEN "lookup6" ELSE "save"
       IN IF ip = 0 \/ mine = ip
          THEN arb' = [arb EXCEPT ![w].pc = after]
          ELSE IF holders = {}
          THEN arb' = [arb EXCEPT ![w].pc = after, ![w].updated = TRUE,
                                  ![w].vm = IF v4 THEN [a.vm EXCEPT !.primary4 = ip]
                                                  ELSE [a.vm EXCEPT !.primary6 = ip]]
          ELSE \E other_vm \in holders :
                  arb' = [arb EXCEPT ![w].pc = IF v4 THEN "clear4" ELSE "clear6",
                                     ![w].other = other_vm]
    /\ UNCHANGED <<vms, arb_frame>>

\* other_vm.primary_ip = None; other_vm.save(); vm.primary_ip = ip
ArbClear(w) ==
    /\ arb # <<>> /\ arb[w].pc \in {"clear4", "clear6"}
    /\ LET a == arb[w]
           v4 == a.pc = "clear4"
           row == IF v4 THEN [a.other EXCEPT !.primary4 = 0]
                        ELSE [a.other EXCEPT !.primary6 = 0]
       IN IF Accepts(vms, row)
          THEN /\ vms' = Save(vms, row)
               /\ arb' = [arb EXCEPT
                     ![w].pc = IF v4 THEN "lookup6" ELSE "save",
                     ![w].other = NoRow, ![w].updated = TRUE,
                     ![w].vm = IF v4 THEN [a.vm EXCEPT !.primary4 = a.ip4]
                                     ELSE [a.vm EXCEPT !.primary6 = a.ip6]]
          ELSE /\ vms' = vms
               /\ arb' = [arb EXCEPT ![w] = [WorkerIdle EXCEPT !.pc = "error"]]
    /\ UNCHANGED arb_frame

\* if updated: vm.save()
ArbSave(w) ==
    /\ arb # <<>> /\ arb[w].pc = "save"
    /\ LET a == arb[w]
       IN IF ~a.updated
          THEN vms' = vms /\ arb' = [arb EXCEPT ![w] = WorkerIdle]
          ELSE IF Accepts(vms, a.vm)
          THEN vms' = Save(vms, a.vm) /\ arb' = [arb EXCEPT ![w] = WorkerIdle]
          ELSE /\ vms' = vms
               /\ arb' = [arb EXCEPT ![w] = [WorkerIdle EXCEPT !.pc = "error"]]
    /\ UNCHANGED arb_frame

NextArb ==
    \/ \E w \in Workers : ArbStart(w)
    \/ \E w \in Workers : ArbLookup(w)
    \/ \E w \in Workers : ArbClear(w)
    \/ \E w \in Workers : ArbSave(w)

SpecArb == InitArb /\ [][NextArb]_vars

\* calls of parse_size: the numbers a size is written with, as text and as
\* the fraction num/den they denote
Numbers ==
    {[text |-> <<"0">>, num |-> 0, den |-> 1],
     [text |-> <<"4">>, num |-> 4, den |-> 1],
     [text |-> <<"5", "1", "2">>, num |-> 512, den |-> 1],
     [text |-> <<"2", "0", "4", "8">>, num |-> 2048, den |-> 1],
     [text |-> <<"1", "0", "4", "8", "5", "7", "6">>, num |-> 1048576, den |-> 1],
     [text |-> <<"2", "0", "9", "7", "1", "5", "1">>, num |-> 2097151, den |-> 1],
     [text |-> <<"1", ".", "5">>, num |-> 15, den |-> 10],
     [text |-> <<"0", ".", "5">>, num |-> 5, den |-> 10]}

\* the suffixes of a size and the unit each one names
Suffixes ==
    {[text |-> <<"G", "i", "B">>, unit |-> "G"], [text |-> <<"G", "B">>, unit |-> "G"],
     [text |-> <<"g", "i", "b">>, unit |-> "G"], [text |-> <<"g", "b">>, unit |-> "G"],
     [text |-> <<"M", "i", "B">>, unit |-> "M"], [text |-> <<"M", "B">>, unit |-> "M"],
     [text |-> <<"m", "i", "b">>, unit |-> "M"], [text |-> <<"M", "b">>, unit |-> "M"],
     [text |-> <<"K", "i", "B">>, unit |-> "K"], [text |-> <<"K", "B">>, unit |-> "K"],
     [text |-> <<"k", "i", "b">>, unit |-> "K"], [text |-> <<"k", "B">>, unit |-> "K"]}

\* texts that write no number
Malformed ==
    {<<>>, <<"x", "4">>, <<"4", "x">>, <<"1", ".", "2", ".", "3">>, <<".">>,
     <<"n", "a", "n">>, <<"i", "n", "f">>, <<"4", " ", "4">>}

\* suffixes parse_memory does not know
OtherSuffixes == {<<"B">>, <<"T", "i", "B">>, <<"G">>}

SizeInputs ==
    {NoneValue}
    \cup {IntValue(q.num) : q \in {x \in Numbers : x.den = 1}}
    \cup {StrValue(q.text) : q \in Numbers}
    \cup {StrValue(q.text \o u.text) : q \in Numbers, u \in Suffixes}
    \cup {StrValue(<<" ">> \o q.text \o <<" ">> \o u.text \o <<" ">>) :
             q \in Numbers, u \in Suffixes}
    \cup {StrValue(t) : t \in Malformed}
    \cup {StrValue(t \o u.text) : t \in Malformed, u \in Suffixes}
    \cup {StrValue(q.text \o t) : q \in Numbers, t \in OtherSuffixes}

\* a caller calls parse_size
ParseSize ==
    /\ \E val \in SizeInputs : value' = val /\ returned' = parse_size(val)
    /\ UNCHANGED <<store, now, job, pc, hostq, cur, pass, since, visited, failed,
                   outcome, hist, seen, arb>>

NextParse == ParseSize

SpecParse == Init /\ [][NextParse]_vars

----------------------------------------------------------------------------
(* Properties *)

SnapshotUuids == {instances[k].uuid : k \in 1..Len(instances)} \ {""}

\* C1: the stale-record step of a host pass never deletes a record whose
\* stable_id belongs to an instance listed in that pass's snapshot.
C1_ReportedNeverRetired ==
    pc = "events" => \A r \in removed : r.uuid \notin SnapshotUuids

\* C8: no two records of the store carry the same non-empty stable_id.
C8_IdentityInvariant ==
    \A v, w \in vms : (v.uuid # "" /\ v.uuid = w.uuid) => v.pk = w.pk

\* C8 witness: one pass synchronised two instances carrying the same
\* stable_id under two names and the store holds a record with it.
C8_Witness ==
    /\ pc = "instances" /\ Len(instances) = 2 /\ idx = 3
    /\ instances[1].uuid = "u1" /\ instances[2].uuid = "u1"
    /\ \E v \in vms : v.uuid = "u1" /\ v.name = instances[2].name

\* C9: an error or a connection failure on a host never leaves the run: the
\* run does not crash and its loop ends only after visiting every enabled host.
C9_HostFailureIsolation ==
    /\ pc # "crashed"
    /\ (pc = "next" /\ hostq = <<>>) => visited = HostSet

\* C9 witness: the first host failed and the run went on to complete the
\* last host's pass.
C9_Witness ==
    /\ pc = "next" /\ hostq = <<>> /\ Hosts[1] \in failed
    /\ cur = Hosts[Len(Hosts)] /\ outcome = "ok"

\* C10: when an instance of a host's list fails, the well-formed instances of
\* the same list are still synchronised in that pass.
C10_EntityFailureIsolation ==
    (pc = "next" /\ job = "full" /\ outcome \in {"ok", "error"}) =>
        \A k \in 1..Len(instances) :
            instances[k].fault = "" => instances[k].name \in synced

\* the records carrying a UUID
WithUuid(u) == {v \in vms : v.uuid = u}

\* the uuid is reported by exactly one instance of the snapshot
ReportedOnce(u) == Cardinality({k \in 1..Len(instances) : instances[k].uuid = u}) = 1

SnapshotNames == {instances[k].name : k \in 1..Len(instances)}

\* C2: an instance reported under one name in a pass of a host and under
\* another name, with the same stable_id, in the next pass of that host has
\* exactly one record after that pass, and the record bears the new name.
C2_RenameSurvival ==
    pc = "events" =>
        \A k \in 1..Len(instances) : \A j \in 1..Len(prev[cur].snap) :
            LET e == instances[k]
                e0 == prev[cur].snap[j]
            IN (/\ e.uuid # "" /\ e0.uuid = e.uuid /\ e0.name # e.name
                /\ ReportedOnce(e.uuid) /\ prev[cur].outcome = "ok")
               => /\ Cardinality(WithUuid(e.uuid)) = 1
                  /\ \A v \in WithUuid(e.uuid) : v.name = e.name

\* C4: a completed pass that repeats the previous completed pass of the host
\* on the same snapshot leaves the record state the previous pass left.
C4_Idempotence == repeat # "differs"

C6_Reclaimed ==
    pc = "events" =>
        \A r \in prev[cur].deleted :
            (r.uuid \in SnapshotUuids /\ ReportedOnce(r.uuid))
            => /\ Cardinality(WithUuid(r.uuid)) = 1
               /\ \A v \in WithUuid(r.uuid) : MANAGED \in v.tags

\* the address of an address row ("": no row)
AddressOf(I, pk) == IF pk = 0 THEN "" ELSE Row(I, pk).address

\* the first address of a family an instance reports: interfaces and
\* addresses in the order reported, the loopback interface and the
\* link-local and local scopes left out ("": none)
RECURSIVE FirstOf(_, _)
FirstOf(addresses, family) ==
    IF addresses = <<>> THEN ""
    ELSE LET a == Head(addresses)
         IN IF a.family = family /\ a.scope \notin {"link", "local"} /\ a.address # ""
            THEN a.address
            ELSE FirstOf(Tail(addresses), family)

RECURSIVE FirstReported(_, _)
FirstReported(net, family) ==
    IF net = <<>> THEN ""
    ELSE LET own == IF Head(net).name = "lo" THEN ""
                    ELSE FirstOf(Head(net).addresses, family)
         IN IF own # "" THEN own ELSE FirstReported(Tail(net), family)

\* the synchronisation of the instance at idx leaves address A primary (v4)
\* on the record of that instance only, and no more on record r1
Moved4(r1, A) ==
    /\ \A v \in vms' : v.pk = r1.pk => v.primary4 = 0
    /\ \E w \in vms' : /\ w.name = instances[idx].name
                        /\ AddressOf(ips', w.primary4) = A
                        /\ \A v \in vms' : AddressOf(ips', v.primary4) = A => v.pk = w.pk

Moved6(r1, A) ==
    /\ \A v \in vms' : v.pk = r1.pk => v.primary6 = 0
    /\ \E w \in vms' : /\ w.name = instances[idx].name
                        /\ AddressOf(ips', w.primary6) = A
                        /\ \A v \in vms' : AddressOf(ips', v.primary6) = A => v.pk = w.pk

\* C3: when the instance being synchronised reports as its first address of
\* a family the address that is primary on the record of another instance,
\* the address is afterwards primary on the record of the instance that
\* reported it, on no other record, and the primary of the family is
\* cleared on the record that held it.
C3_AddressExclusivity ==
    [][(pc = "instances" /\ idx <= Len(instances) /\ idx' = idx + 1) =>
          \A r1 \in vms :
             r1.name # instances[idx].name =>
                /\ (r1.primary4 # 0 /\ FirstReported(instances[idx].net, "inet")
                                         = AddressOf(ips, r1.primary4))
                   => Moved4(r1, AddressOf(ips, r1.primary4))
                /\ (r1.primary6 # 0 /\ FirstReported(instances[idx].net, "inet6")
                                         = AddressOf(ips, r1.primary6))
                   => Moved6(r1, AddressOf(ips, r1.primary6))]_vars

\* C3 witness: the two instances of a snapshot both reported the same IPv4
\* address; after both were synchronised the later one holds it as primary
\* and the earlier one does not.
C3_Witness ==
    /\ pc = "instances" /\ Len(instances) = 2 /\ idx = 3
    /\ \A k \in 1..2 : instances[k].net = <<Eth("eth0", <<Addr4>>)>>
    /\ \E v, w \in vms :
          /\ v.name = instances[1].name /\ w.name = instances[2].name
          /\ v.primary4 = 0 /\ AddressOf(ips, w.primary4) = Addr4.address

\* the journal entries of a record that bear the fragment of an operation
EntriesOf(x) ==
    {k \in 1..Len(journal) : journal[k].vm = x.vm /\ journal[k].frag = Frag(x.id)}

\* C7: an operation that two ingestions examined for the same record has
\* exactly one journal entry on that record.
C7_EventDedupe ==
    \A x \in seen : x.n = 2 => Cardinality(EntriesOf(x.op)) = 1

\* floor of the size in MB of the number q in the unit
ExpectedMB(q, unit) ==
    IF unit = "G" THEN (q.num * 1024) \div q.den
    ELSE IF unit = "M" THEN q.num \div q.den
    ELSE IF unit = "K" THEN q.num \div (q.den * 1024)
    ELSE q.num \div (1024 * 1024)

\* C11: parse_size of a non-negative number n returns floor(n*1024) with a
\* GiB or GB suffix, floor(n) with MiB or MB, floor(n/1024) with KiB or KB,
\* the suffix in any letter case, and floor(n/1048576) for a bare integer.
C11_SizeParsing ==
    \A q \in Numbers :
        /\ \A u \in Suffixes :
              value = StrValue(q.text \o u.text) => returned = Some(ExpectedMB(q, u.unit))
        /\ (q.den = 1 /\ value \in {StrValue(q.text), IntValue(q.num)})
              => returned = Some(ExpectedMB(q, "bytes"))

\* C12: parse_size never raises, and returns the absent value for a
\* malformed input.
C12_NeverRaises ==
    /\ returned.kind \in {"int", "None"}
    /\ (value = NoneValue \/ \E t \in Malformed : value = StrValue(t))
          => returned = None

\* the interface of a network state reports the address with a scope that
\* is synchronised
Reports(i, A) ==
    /\ i.name # "lo"
    /\ \E k \in 1..Len(i.addresses) :
          i.addresses[k].address = A /\ i.addresses[k].scope \notin {"link", "local"}

\* the name of the last interface of the network state that reports A
LastReporting(net, A) ==
    LET last == CHOOSE k \in 1..Len(net) :
                   Reports(net[k], A) /\ \A m \in (k + 1)..Len(net) : ~Reports(net[m], A)
    IN net[last].name

\* C13: the store holds at most one address row per address string; an
\* address already in the store keeps its row, no row is created for it, and
\* after an instance that reports it is synchronised the row is assigned to
\* the interface that reported it last.
C13_AddressUnique ==
    [][/\ \A a, b \in ips' : a.address = b.address => a.pk = b.pk
       /\ \A a \in ips : \A b \in ips' : b.address = a.address => b.pk = a.pk
       /\ (pc = "instances" /\ idx <= Len(instances) /\ idx' = idx + 1) =>
             LET net == instances[idx].net
             IN \A A \in {Addr4.address, Addr6.address} :
                   (\E k \in 1..Len(net) : Reports(net[k], A)) =>
                      \E a \in ips' : \E i \in ifaces' : \E v \in vms' :
                         /\ a.address = A /\ a.iface = i.pk
                         /\ i.name = LastReporting(net, A)
                         /\ i.vm = v.pk /\ v.name = instances[idx].name]_vars

\* C13 witness: the two instances of a snapshot reported the same address
\* one after the other; the store holds one row for it, assigned to an
\* interface of the record synchronised last.
C13_Witness ==
    /\ pc = "instances" /\ Len(instances) = 2 /\ idx = 3
    /\ \A k \in 1..2 : \E m \in 1..Len(instances[k].net) :
                          Reports(instances[k].net[m], Addr6.address)
    /\ Cardinality({a \in ips : a.address = Addr6.address}) = 1
    /\ \E a \in ips : \E i \in ifaces : \E v \in vms :
          /\ a.address = Addr6.address /\ a.iface = i.pk /\ i.vm = v.pk
          /\ v.name = instances[2].name

\* the worker is between the entry and the return of _set_primary_ips
Arbitrating(w) == arb[w].pc \notin {"idle", "error"}

\* C14: the arbitrations of two workers that claim the same address for
\* different records do not interleave, and no two records hold the same
\* address as primary.
C14_SerializedArbitration ==
    /\ \A w1, w2 \in DOMAIN arb :
          (w1 # w2 /\ Arbitrating(w1) /\ Arbitrating(w2)) =>
             /\ (arb[w1].ip4 = 0 \/ arb[w1].ip4 # arb[w2].ip4)
             /\ (arb[w1].ip6 = 0 \/ arb[w1].ip6 # arb[w2].ip6)
    /\ \A v, w \in vms :
          v.pk # w.pk =>
             /\ (v.primary4 = 0 \/ v.primary4 # w.primary4)
             /\ (v.primary6 = 0 \/ v.primary6 # w.primary6)

\* the texts a set of current identities may hold: names, UUIDs, the empty text
IdentityTexts == {"", "a", "b", "u1"}

\* C15: a managed record without UUID is in the store after handle_deletions,
\* for every host and every set of identities handed to it, the empty set
\* included; and the deletion step of a pass removes no such record
C15_NoIdentityNeverDeleted ==
    /\ \A h \in HostSet : \A S \in SUBSET IdentityTexts :
         {v \in vms : MANAGED \in v.tags /\ v.uuid = ""}
            \subseteq handle_deletions(DB, h, S).vms
    /\ \A r \in removed : r.uuid # ""

\* the deletion step of a pass has deleted a record of the host and left a
\* managed record of the same host that has no UUID
C15_Witness ==
    /\ job = "full" /\ pc = "events" /\ removed # {}
    /\ \E v \in vms : MANAGED \in v.tags /\ v.uuid = "" /\ v.host = cur

\* the record sync_instance returns for the instance data of host h when the
\* lookup gave existing
Returned(data, h, existing) ==
    Row(sync_instance(DB, data, h, existing).vms, vm_pk(DB, existing))

\* the instance whose turn of the loop has just ended
JustSynced == instances[idx - 1]

\* a turn of the loop of a full run has ended without error
AfterSync == job = "full" /\ pc = "instances" /\ idx > 1

\* the record of the instance whose turn has just ended
RecordsOfJustSynced == {v \in vms : v.host = cur /\ v.name = JustSynced.name}

\* the type tag of a snapshot type: the container tag for a container (the
\* type of an instance that gives none), the VM tag for any other
TypeTagOf(t) == IF t \in {"container", Missing} THEN CONTAINER ELSE VMTAG

\* C16: the record sync_instance returns carries the managed tag and, of the
\* two type tags, the one of the instance's type alone, whatever the record
\* carried before; so does the record of the instance the loop has just
\* synchronised, and no record carries both type tags
C16_OwnershipTags ==
    /\ \A data \in TypedInstances : \A h \in HostSet :
         \A existing \in find_existing_vm(vms, data.name, data.uuid, h) :
            Returned(data, h, existing).tags \cap {MANAGED, CONTAINER, VMTAG}
               = {MANAGED, TypeTagOf(data.type)}
    /\ AfterSync =>
          /\ RecordsOfJustSynced # {}
          /\ \A v \in RecordsOfJustSynced :
                v.tags \cap {MANAGED, CONTAINER, VMTAG}
                   = {MANAGED, TypeTagOf(JustSynced.type)}
    /\ \A v \in vms : ~({CONTAINER, VMTAG} \subseteq v.tags)

\* the instance was a container at the end of the previous pass and is a
\* virtual machine now: its record has lost the container tag
C16_Witness ==
    /\ AfterSync /\ idx = 2
    /\ JustSynced.type = "virtual-machine"
    /\ prev[cur].outcome = "ok"
    /\ \E r \in prev[cur].state.records :
          r.name = JustSynced.name /\ r.tags = {MANAGED, CONTAINER}
    /\ \E v \in RecordsOfJustSynced : v.tags = {MANAGED, VMTAG}

\* C17: the record sync_instance returns is active if and only if the raw
\* status of the instance is 'Running'; for any other raw status, a missing
\* one included, it is offline; so is the record of the instance the loop
\* has just synchronised
C17_StatusNormalization ==
    /\ \A data \in TypedInstances : \A h \in HostSet :
         \A existing \in find_existing_vm(vms, data.name, data.uuid, h) :
            LET vm == Returned(data, h, existing)
            IN /\ vm.status \in {"active", "offline"}
               /\ vm.status = "active" <=> data.status = "Running"
    /\ AfterSync =>
          \A v \in RecordsOfJustSynced :
             /\ v.status \in {"active", "offline"}
             /\ v.status = "active" <=> JustSynced.status = "Running"

\* the instance was running at the end of the previous pass and reports a
\* status the mapping does not know: its record has gone offline
C17_Witness ==
    /\ AfterSync /\ idx = 2
    /\ JustSynced.status = "running"
    /\ prev[cur].outcome = "ok"
    /\ \E r \in prev[cur].state.records :
          r.name = JustSynced.name /\ r.status = "active"
    /\ \E v \in RecordsOfJustSynced : v.status = "offline"

\* the names of the interfaces of a network state, loopback left out
NonLoopback(net) == {net[k].name : k \in 1..Len(net)} \ {"lo"}

\* the interface rows of a record
InterfacesOf(v) == {i \in ifaces : i.vm = v.pk}

\* C18: once sync_instance_network has returned for the record of an
\* instance, the names of the interfaces of the record are the names of the
\* network state of the instance other than loopback, whether the state
\* holds several interfaces, loopback alone or none, and no two interfaces
\* of the record bear the same name
C18_InterfaceMirror ==
    AfterSync =>
       \A v \in RecordsOfJustSynced :
          /\ {i.name : i \in InterfacesOf(v)} = NonLoopback(JustSynced.net)
          /\ \A i, j \in InterfacesOf(v) : i.name = j.name => i.pk = j.pk

\* the disk rows of a record
DisksOf(v) == {k \in disks : k.vm = v.pk}

\* the disk devices of an instance
DiskDevices(data) ==
    {data.devices[k] : k \in {j \in 1..Len(data.devices) : data.devices[j].type = "disk"}}

\* C19: once sync_instance_disks has returned for the record of an
\* instance, the names of the disks of the record are the names of the disk
\* devices of the instance, also when the instance has no disk device, and
\* no two disks of the record bear the same name
C19_DiskMirror ==
    AfterSync =>
       \A v \in RecordsOfJustSynced :
          /\ {k.name : k \in DisksOf(v)} = {dev.name : dev \in DiskDevices(JustSynced)}
          /\ \A j, k \in DisksOf(v) : j.name = k.name => j.pk = k.pk

\* the size a text gives through parse_size, 0 when it gives none
SizeIn(text) ==
    LET r == parse_size(StrValue(text))
    IN IF text # <<>> /\ r.kind = "int" THEN r.v ELSE 0

\* the size a lookup gives, 0 when it found nothing or failed
Looked(answer) == IF answer.kind = "info" THEN SizeIn(answer.size) ELSE 0

\* the first size that is not empty among: the size of the device; the
\* size of the volume the device names by pool and source; for the root
\* disk without size of its own, the size of the volume of the instance
ChainSize(dev, volumes) ==
    LET explicit == SizeIn(dev.size)
        named == IF dev.pool # "" /\ dev.source # "" THEN Looked(volumes.custom) ELSE 0
        own == IF volumes.container.kind = "info" THEN volumes.container
               ELSE volumes.vm
        entity == IF dev.name = "root" /\ dev.size = <<>> THEN Looked(own) ELSE 0
    IN IF explicit # 0 THEN explicit
       ELSE IF named # 0 THEN named
       ELSE entity

\* a turn of the loop of a full run has failed
TurnFailed ==
    job = "full" /\ pc = "next" /\ outcome = "error" /\ idx <= Len(instances)

\* C20: the disk of each disk device of a synchronised instance holds the
\* first non-empty size of the chain (size of the device, size of the named
\* volume, size of the volume of the instance for the root disk without
\* size), 0 when there is none, and the synchronisation of the disks of an
\* instance never fails
C20_SizeChain ==
    /\ AfterSync =>
          \A v \in RecordsOfJustSynced : \A dev \in DiskDevices(JustSynced) :
             \E k \in DisksOf(v) :
                k.name = dev.name /\ k.size = ChainSize(dev, JustSynced.volumes)
    /\ ~TurnFailed

\* an operation failed: its status is the failure status or it has an
\* error text
Failed(e) == e.status = "Failure" \/ e.err # ""

\* C21: every journal entry of a failed operation (status Failure, or an
\* error text) is of kind danger, whatever event type its description is
\* classified as; any other entry has the kind mapped from its event type,
\* info when the type is unknown
C21_SeverityEscalation ==
    \A k \in 1..Len(journal) :
       LET e == journal[k]
           event_type == detect_event_type(e.description)
       IN /\ Failed(e) => e.kind = "danger"
          /\ ~Failed(e) =>
                /\ e.kind = mapped_kind(event_type)
                /\ event_type = "unknown" => e.kind = "info"

\* an entry of kind danger for an operation that failed while starting an
\* instance (an event type mapped to info), one for a successful operation
\* that left an error text, and an entry of kind info for a description of
\* unknown type
C21_Witness ==
    /\ \E k \in 1..Len(journal) :
          /\ journal[k].status = "Failure" /\ journal[k].err = ""
          /\ journal[k].description = Starting /\ journal[k].kind = "danger"
    /\ \E k \in 1..Len(journal) :
          /\ journal[k].status = "Success" /\ journal[k].err # ""
          /\ journal[k].kind = "danger"

\* the records that bear the UUID of the instance data
ByUuid(data) == {v \in vms : v.uuid = data.uuid}

\* C22: when the instance has a UUID and a record bears it, the lookup gives
\* a record with that UUID whatever its name, even if another record has the
\* name and the host of the instance; sync_instance then writes that record
\* alone: every other record is as before and no record is created
C22_UuidDominance ==
    \A data \in {x \in PlainInstances : x.uuid # ""} : \A h \in HostSet :
       ByUuid(data) # {} =>
          \A existing \in find_existing_vm(vms, data.name, data.uuid, h) :
             LET after == sync_instance(DB, data, h, existing).vms
             IN /\ existing \in {v.pk : v \in ByUuid(data)}
                /\ {v.pk : v \in after} = {v.pk : v \in vms}
                /\ \A v \in vms : v.pk # existing => v \in after
                /\ Row(after, existing).name = data.name
                /\ Row(after, existing).uuid = data.uuid

\* the instance just synchronised has been resolved by its UUID to a record
\* that bore another name, while another record of the host, without UUID,
\* has the name of the instance and is left as it was
C22_Witness ==
    /\ AfterSync /\ JustSynced.uuid # ""
    /\ \E v, w \in RecordsOfJustSynced :
          /\ v.pk # w.pk
          /\ v.uuid = JustSynced.uuid
          /\ w.uuid = ""

\* the records that have the name of the instance data and the host
ByName(data, h) == {v \in vms : v.name = data.name /\ v.host = h}

\* C23: when no record is found by UUID, the lookup gives the record that
\* has the name and the host of the instance only if it is the only one;
\* when two or more records have them it gives none
C23_UniqueNameMatch ==
    \A data \in PlainInstances : \A h \in HostSet :
       (data.uuid = "" \/ ByUuid(data) = {}) =>
          LET found == find_existing_vm(vms, data.name, data.uuid, h)
              matches == ByName(data, h)
          IN /\ Cardinality(matches) = 1 => found = {v.pk : v \in matches}
             /\ Cardinality(matches) # 1 => found = {0}

\* the instance has no memory limit, or one parse_memory does not read
NoMemoryLimit(data) ==
    \/ data.limits_memory = <<>>
    \/ parse_memory(StrValue(data.limits_memory)).kind # "int"

\* the instance has no disk device of path "/" whose size parse_size reads
\* as a number other than 0
NoRootSize(data) ==
    \A k \in 1..Len(data.local_devices) :
       LET dev == data.local_devices[k]
       IN ~(/\ dev.type = "disk" /\ dev.path = "/" /\ dev.size # <<>>
            /\ Truthy(parse_size(StrValue(dev.size))))

\* C24: when sync_instance updates a record and the instance has no memory
\* limit, or an unreadable one, the memory of the record is the one it had;
\* when the instance has no root disk device with a readable size other
\* than 0, the disk of the record is the one it had
C24_ResourcesKept ==
    \A data \in ResourceInstances : \A h \in HostSet :
       \A existing \in find_existing_vm(vms, data.name, data.uuid, h) \ {0} :
          LET before == Row(vms, existing)
              after == Row(sync_instance(DB, data, h, existing).vms, existing)
          IN /\ NoMemoryLimit(data) => after.memory = before.memory
             /\ NoRootSize(data) => after.disk = before.disk

\* a record that had a memory and a disk has been updated from an instance
\* that gives neither
C24_Witness ==
    /\ AfterSync /\ NoMemoryLimit(JustSynced) /\ NoRootSize(JustSynced)
    /\ \E v \in RecordsOfJustSynced : v.memory # 0 /\ v.disk # 0

\* C25: synchronising a hardware address other than the empty and the
\* all-zero one on an interface creates or reassigns no MAC address row when
\* a row with that address is assigned to the interface, reassigns to the
\* interface a row with that address assigned elsewhere, creates a row
\* otherwise, and leaves that row as the primary MAC address of the
\* interface; the empty and the all-zero address change nothing
C25_MacAssignment ==
    \A i \in ifaces : \A hw \in HwAddrs :
       LET after == sync_hwaddr(DB, i.pk, hw)
           here == {m \in macs : m.mac_address = Upper(hw) /\ m.iface = i.pk}
           anywhere == {m \in macs : m.mac_address = Upper(hw)}
           primary == Row(after.ifaces, i.pk).primary_mac
       IN IF hw \in {<<>>, ZeroMac} THEN after = DB
          ELSE /\ here # {} => after.macs = macs
               /\ here = {} /\ anywhere # {} =>
                     \E m \in anywhere :
                        after.macs = Save(macs, [m EXCEPT !.iface = i.pk])
               /\ anywhere = {} =>
                     \E m \in after.macs :
                        /\ m.pk \notin {x.pk : x \in macs}
                        /\ m.mac_address = Upper(hw) /\ m.iface = i.pk
                        /\ after.macs = macs \cup {m}
               /\ \E m \in after.macs :
                     /\ m.pk = primary
                     /\ m.mac_address = Upper(hw) /\ m.iface = i.pk

\* the candidates _set_primary_ips can be given for a family: none (0), or
\* an address row of the family
Candidates(address) == {0} \cup {a.pk : a \in {x \in ips : x.address = address}}

\* C26 as stated: when the candidate of a family is already the primary
\* address of the record, _set_primary_ips leaves every record as it is; when
\* a family has no candidate, the primary address of the record for that
\* family stays
C26_NoWritePerFamily ==
    \A v \in vms : \A ip4 \in Candidates(Addr4.address) :
       \A ip6 \in Candidates(Addr6.address) :
          LET after == set_primary_ips(DB, v.pk, ip4, ip6)
          IN /\ ip4 # 0 /\ v.primary4 = ip4 => after = DB
             /\ ip6 # 0 /\ v.primary6 = ip6 => after = DB
             /\ ip4 = 0 => Row(after.vms, v.pk).primary4 = v.primary4
             /\ ip6 = 0 => Row(after.vms, v.pk).primary6 = v.primary6

\* C26, amended: when the candidate of each family is missing or already
\* the primary address of the record, _set_primary_ips leaves every record
\* as it is; when a family has no candidate, the primary address of the
\* record for that family stays
C26_NoWriteWithoutChange ==
    \A v \in vms : \A ip4 \in Candidates(Addr4.address) :
       \A ip6 \in Candidates(Addr6.address) :
          LET after == set_primary_ips(DB, v.pk, ip4, ip6)
          IN /\ (ip4 = 0 \/ v.primary4 = ip4) /\ (ip6 = 0 \/ v.primary6 = ip6)
                   => after = DB
             /\ ip4 = 0 => Row(after.vms, v.pk).primary4 = v.primary4
             /\ ip6 = 0 => Row(after.vms, v.pk).primary6 = v.primary6

\* the instance about to be synchronised reports the address that is the
\* IPv4 primary of its record and no IPv6 address, and the record has an
\* IPv6 primary
C26_Witness ==
    /\ job = "full" /\ pc = "instances" /\ idx <= Len(instances)
    /\ instances[idx].net = <<Eth("eth0", <<Addr4>>)>>
    /\ \E v \in vms :
          /\ v.name = instances[idx].name /\ v.host = cur
          /\ v.primary4 \in Candidates(Addr4.address) \ {0}
          /\ v.primary6 \in Candidates(Addr6.address) \ {0}
          /\ \E i \in ifaces : /\ i.vm = v.pk /\ i.name = "eth0"
                                /\ Row(ips, v.primary4).iface = i.pk

\* the names of the interfaces, sorted
SortedNames == <<"eth0", "eth1", "lo">>

Rank(n) == CHOOSE k \in 1..Len(SortedNames) : SortedNames[k] = n

\* the addresses of the family on the interface that are not link-local
Global(iface, family) ==
    LET Counts(a) == a.family = family /\ a.scope \notin {"link", "local"}
                     /\ a.address # ""
    IN SelectSeq(iface.addresses, Counts)

\* the first address of the family on the interface of smallest name that
\* has one ("" when no interface has one)
FirstByName(net, family) ==
    LET having == {k \in 1..Len(net) : /\ net[k].name # "lo"
                                       /\ Global(net[k], family) # <<>>}
        least == CHOOSE k \in having :
                    \A j \in having : Rank(net[k].name) <= Rank(net[j].name)
    IN IF having = {} THEN "" ELSE Head(Global(net[least], family)).address

\* the primary addresses of a record, as addresses
PrimaryAddresses(d, vm) ==
    LET v == Row(d.vms, vm)
        AddrOf(pk) == IF pk = 0 THEN "" ELSE Row(d.ips, pk).address
    IN <<AddrOf(v.primary4), AddrOf(v.primary6)>>

\* two network states with the same interfaces
SameInterfaces(s, t) ==
    {s[k] : k \in 1..Len(s)} = {t[k] : k \in 1..Len(t)}

\* C27: once the interfaces of an instance are synchronised, the primary
\* address of each family of its record is the first address of the family,
\* link-local ones aside, on the interface of smallest name that has one;
\* two network states with the same interfaces in a different order give
\* the record the same primary addresses
C27_SortedCandidate ==
    /\ AfterSync /\ JustSynced.net # <<>> =>
          \A v \in RecordsOfJustSynced :
             /\ FirstByName(JustSynced.net, "inet") # "" =>
                   PrimaryAddresses(DB, v.pk)[1] = FirstByName(JustSynced.net, "inet")
             /\ FirstByName(JustSynced.net, "inet6") # "" =>
                   PrimaryAddresses(DB, v.pk)[2] = FirstByName(JustSynced.net, "inet6")
    /\ \A v \in vms : \A s, t \in OrderStates :
          SameInterfaces(s, t) =>
             PrimaryAddresses(sync_instance_network(DB, v.pk,
                                 [Instance(v.name, "", "") EXCEPT !.net = s]), v.pk)
             = PrimaryAddresses(sync_instance_network(DB, v.pk,
                                 [Instance(v.name, "", "") EXCEPT !.net = t]), v.pk)

\* C28: handle_deletions for a host leaves as they are the records of the
\* other hosts and the records without the managed tag, whatever identities
\* it is given
C28_RetirementScope ==
    \A h \in HostSet : \A S \in SUBSET IdentityTexts :
       \A v \in vms :
          ~(MANAGED \in v.tags /\ v.host = h) => v \in handle_deletions(DB, h, S).vms

\* the pass is a full pass over two well-formed instances with the same UUID
Collision ==
    /\ job = "full" /\ Len(instances) = 2
    /\ instances[1].uuid # "" /\ instances[1].uuid = instances[2].uuid
    /\ instances[1].fault = "" /\ instances[2].fault = ""

\* one record has the UUID of the two instances, under the name of the second
OneRecordOfLast ==
    /\ Cardinality({v \in vms : v.uuid = instances[2].uuid}) = 1
    /\ \A v \in vms : v.uuid = instances[2].uuid => v.name = instances[2].name

\* C29: in a pass over two instances with the same UUID no turn of the loop
\* raises, and once both are synchronised, and still after the deletion step
\* of the pass, exactly one record carries that UUID, under the name of the
\* instance synchronised last
C29_CollisionKeepsLast ==
    Collision =>
       /\ pc = "instances" /\ idx <= 2 =>
             \A existing \in find_existing_vm(vms, instances[idx].name,
                                               instances[idx].uuid, cur) :
                ~sync_turn(DB, instances[idx], cur, existing).raised
       /\ (pc = "instances" /\ idx = 3) \/ pc = "events" => OneRecordOfLast

\* C30: a host is skipped, or its pass ended at the connection test, only
\* when its test reported failure, and its pass proceeds to the requests
\* only when its test reported success; the run goes on in both cases
C30_ConnectionGate ==
    /\ pc = "next" /\ outcome \in {"refused", "error"} => ~returned[1]
    /\ pc = "fetch" => returned[1]
    /\ pc # "crashed"

\* the records an operation of host h on the instance name n may be
\* journalled on: those of the name and the host; when there is none, the
\* record of the name if it is the only one of the store
Owners(n, h) ==
    LET byHost == {v \in vms : v.name = n /\ v.host = h}
        byName == {v \in vms : v.name = n}
    IN IF byHost # {} THEN {v.pk : v \in byHost}
       ELSE IF Cardinality(byName) = 1 THEN {v.pk : v \in byName}
       ELSE {}

\* C31: the record find_vm gives for an instance name and a host is one of
\* the name and the host, or without any the only record of the name, or
\* none; _create_journal_entry adds entries on that record alone, and none
\* when there is no record
C31_OwnerResolution ==
    \A n \in InstanceNames : \A h \in HostSet :
       \A vm \in find_vm(vms, n, h) : \A op \in OwnerOperations :
          LET after == create_journal_entry(DB, vm, op,
                          [auto_now_add |-> FALSE, now |-> now]).journal
          IN /\ IF Owners(n, h) = {} THEN vm = 0 ELSE vm \in Owners(n, h)
             /\ vm = 0 => after = journal
             /\ \A k \in 1..Len(after) : k > Len(journal) => after[k].vm = vm

\* an events run has journalled an operation of the second host on the
\* record of the first host, the only one of the name
C31_Witness ==
    /\ job = "events" /\ pc = "next" /\ cur = Hosts[2] /\ outcome = "ok"
    /\ failed = {Hosts[1]}
    /\ Len(journal) = 1
    /\ Owners("a", cur) = {journal[1].vm}
    /\ Row(vms, journal[1].vm).host = Hosts[1]

\* the operations whose created_at is read as a time
Readable(operations) ==
    LET Reads(op) == parse_timestamp(op).kind = "aware"
    IN SelectSeq(operations, Reads)

\* C32: when an event pass is about to read the operations of the host,
\* whatever their created_at, sync_events does not raise, and it leaves the
\* store that the operations with a readable created_at alone would leave:
\* the others are skipped
C32_TimestampNeverRaises ==
    (job = "events" /\ pc = "connect") =>
       \A operations \in OpLists(StampOperations) :
          \A vm \in find_vm(vms, "a", cur) :
             LET found == [n \in InstanceNames |-> IF n = "a" THEN vm ELSE 0]
                 clock == [auto_now_add |-> FALSE, now |-> now]
                 r == ingest(DB, operations, now - 60 * since, found, clock)
             IN /\ ~r.raised
                /\ r.d = sync_events(DB, Readable(operations), now - 60 * since,
                                     found, clock)

\* a step retires a record: the record is deleted, or it loses the managed tag
Retires ==
    \E v \in vms :
       \/ \A w \in vms' : w.pk # v.pk
       \/ \E w \in vms' : w.pk = v.pk /\ MANAGED \in v.tags /\ MANAGED \notin w.tags

\* C33: a record is retired or deleted only by a host pass that is still
\* running (its connection test and its fetch have succeeded) and in which
\* every instance of the snapshot has been synchronised without raising
C33_RetireAfterCompletePass ==
    [][Retires =>
         /\ job = "full" /\ pc = "instances" /\ outcome = "running"
         /\ idx > Len(instances)
         /\ \A k \in 1..Len(instances) : instances[k].name \in synced]_vars

\* a host pass has ended on an instance that raised while a managed record of
\* the host, which the stale step would have deleted, is still there
C33_Witness ==
    /\ job = "full" /\ pc = "next" /\ outcome = "error" /\ removed = {}
    /\ idx <= Len(instances)
    /\ \E v \in vms : /\ MANAGED \in v.tags /\ v.host = cur
                       /\ v.uuid # "" /\ v.uuid \notin names

\* C34: no step replaces the non-empty incus_uuid of a record by another
\* one: the lookup by name does not hand sync_instance a record that carries
\* the UUID of another instance
C34_StableIdKept ==
    [][\A v \in vms : \A w \in vms' :
          (w.pk = v.pk /\ v.uuid # "") => w.uuid = v.uuid]_vars

\* the entries of journal J on record vm that bear the fragment of one of
\* the ids
EntriesFor(J, vm, ids) ==
    {k \in 1..Len(J) : J[k].vm = vm /\ \E i \in ids : J[k].frag = Frag(i)}

\* C35: when an event pass is about to read the operations of the host, any
\* two operations of the list with different ids, on the same record and
\* both within the lookback, leave at least two entries on that record
C35_DedupeOnlyReobservations ==
    (job = "events" /\ pc = "connect") =>
       \A operations \in OpLists(DedupeOperations) :
          \A vm \in find_vm(vms, "a", cur) : \A auto_now_add \in BOOLEAN :
             LET found == [n \in InstanceNames |-> IF n = "a" THEN vm ELSE 0]
                 clock == [auto_now_add |-> auto_now_add, now |-> now]
                 after == sync_events(DB, operations, now - 60 * since, found,
                                      clock).journal
             IN \A i, j \in 1..Len(operations) :
                   (/\ vm # 0 /\ operations[i].id # operations[j].id
                    /\ InWindow(operations[i], now - 60 * since)
                    /\ InWindow(operations[j], now - 60 * since))
                   => Cardinality(EntriesFor(after, vm, {operations[i].id,
                                                        operations[j].id})) >= 2

\* C36: an entry whose description is a pattern of the list, in any letter
\* case, bears the event type listed with that pattern, and an entry whose
\* description holds no pattern is unknown
C36_IntendedKind ==
    \A k \in 1..Len(journal) :
       /\ \A m \in 1..Len(mappings) :
             Lower(journal[k].description) = mappings[m].pattern
             => journal[k].event = mappings[m].event
       /\ (\A m \in 1..Len(mappings) :
              ~Within(mappings[m].pattern, Lower(journal[k].description)))
          => journal[k].event = "unknown"

\* C37: a MAC address row is the primary MAC address of at most one
\* interface, and of no other interface than the one it is assigned to
C37_PrimaryMacExclusive ==
    \A m \in macs :
       LET holders == {i \in ifaces : i.primary_mac = m.pk}
       IN /\ Cardinality(holders) <= 1
          /\ \A i \in holders : m.iface = i.pk

\* C38: the primary address of a record, of either family, is an address
\* row assigned to an interface of that record
C38_PrimaryAddressLocal ==
    \A v \in vms : \A p \in {v.primary4, v.primary6} \ {0} :
       \E ip \in ips : /\ ip.pk = p
                       /\ \E i \in ifaces : i.pk = ip.iface /\ i.vm = v.pk

\* the addresses the snapshot reports for an interface that are neither
\* link-local nor local
ReportedAddresses(iface_data) ==
    {iface_data.addresses[k].address : k \in
        {x \in 1..Len(iface_data.addresses) :
            /\ iface_data.addresses[x].scope \notin {"link", "local"}
            /\ iface_data.addresses[x].address # ""}}

\* C39: when the network of an instance has just been synchronised, each
\* interface of its record holds exactly the addresses, neither link-local
\* nor local, that the snapshot reports for the interface of that name
C39_AddressMirror ==
    (AfterSync /\ JustSynced.fault = "" /\ JustSynced.net # <<>>) =>
       \A v \in RecordsOfJustSynced : \A i \in ifaces :
          i.vm = v.pk =>
             \A k \in 1..Len(JustSynced.net) :
                JustSynced.net[k].name = i.name =>
                   {ip.address : ip \in {x \in ips : x.iface = i.pk}}
                   = ReportedAddresses(JustSynced.net[k])

====
